---------------------------- MODULE Spec2Model ----------------------------
(***************************************************************************)
(* Model of the financial computation engine of finance-web               *)
(* (src/js/data-service.js): snapshot normalisation, transfer merging,     *)
(* adjustment aggregation, month-over-month comparison, single-month       *)
(* performance and the year-to-date forecast chain.                        *)
(*                                                                         *)
(* Conventions of the model                                                *)
(*  - Money is a whole number of hundredths (0.01 is the unit 1), so the   *)
(*    0.01 capital threshold of the code is the integer Cent.  Ratios      *)
(*    (percentages, yields) are exact fractions [n, d] in lowest terms.    *)
(*    JavaScript's IEEE-754 rounding is not modelled: arithmetic is exact. *)
(*  - A JavaScript string is a sequence of one-character strings, so that  *)
(*    toLowerCase, the whitespace replacement and startsWith are computed. *)
(*  - An optional field (undefined in JavaScript) is the empty sequence    *)
(*    Undefined, a present one the one-element sequence Some(v).           *)
(*  - A fetched JSON value is tagged: kind "null" (absent), "malformed"    *)
(*    (an object without a portfolio list) or "ok".                        *)
(***************************************************************************)
EXTENDS Integers, Sequences, FiniteSets, TLC

VARIABLES
    pc,               \* position: which step of the specification's operation is next
    portfolioData,    \* the (current month's) portfolio document, merged in place
    prevData,         \* the previous month's portfolio document
    transfers,        \* the flat transfer list handed to the operation
    rawData,          \* the document as it was before any merge
    snapshot,         \* result of buildSnapshot for the current document
    previousSnapshot, \* result of buildSnapshot for the previous document
    adjustments,      \* result of getAdjustmentsPerAsset (built transfer by transfer)
    comparison,       \* result of compareSnapshots
    performance,      \* result of calculatePerformance
    args,             \* scalar arguments and loop positions
    result,           \* result of the numeric functions
    availableMonths,  \* the month list of the selector (ids in list order)
    files,            \* the data source: per month its document and its transfers
    currentMonthId,   \* the month selected last
    load,             \* the locals of the loadMonth call in progress
    ui,               \* what the page shows
    forecast,         \* the locals of the calculateYearStats call in progress
    calls,            \* the loadMonth calls made, with their locals, when loads overlap
    dataSource        \* the data source: its configuration and what its transport answers

docVars == <<portfolioData, prevData, transfers, rawData>>
outVars == <<snapshot, previousSnapshot, adjustments, comparison, performance>>
numVars == <<args, result>>
loadVars == <<availableMonths, files, currentMonthId, load, ui, forecast, calls, dataSource>>

vars == <<pc, docVars, outVars, numVars, loadVars>>

-----------------------------------------------------------------------------
(* Generic helpers *)

Undefined == <<>>
Some(v) == <<v>>

None == [kind |-> "none"]

\* the null of a month id (currentMonthId before any selection, the result of
\* getPreviousMonthId for the first month)
NoMonth == "null"

SeqsUpTo(S, n) == UNION {[1..k -> S] : k \in 0..n}

Put(f, k, v) == [x \in (DOMAIN f) \cup {k} |-> IF x = k THEN v ELSE f[x]]

EmptyMap == [x \in {} |-> 0]

RECURSIVE SumSeq(_)
SumSeq(s) == IF s = <<>> THEN 0 ELSE s[1] + SumSeq(Tail(s))

RECURSIVE SumSet(_, _)
\* the sum of F[x] over the elements x of S
SumSet(F, S) ==
    IF S = {} THEN 0
    ELSE LET x == CHOOSE y \in S : TRUE IN F[x] + SumSet(F, S \ {x})

Abs(x) == IF x < 0 THEN -x ELSE x

RECURSIVE Gcd(_, _)
Gcd(a, b) == IF b = 0 THEN a ELSE Gcd(b, a % b)

-----------------------------------------------------------------------------
(* Exact fractions *)

Frac(n, d) ==
    LET g == Gcd(Abs(n), Abs(d))
        s == IF d < 0 THEN -1 ELSE 1
    IN [n |-> (s * n) \div g, d |-> (s * d) \div g]

FInt(i) == [n |-> i, d |-> 1]
FAdd(a, b) == Frac(a.n * b.d + b.n * a.d, a.d * b.d)
FSub(a, b) == Frac(a.n * b.d - b.n * a.d, a.d * b.d)
FMul(a, b) == Frac(a.n * b.n, a.d * b.d)
FDiv(a, b) == Frac(a.n * b.d, a.d * b.n)
FLe(a, b) == a.n * b.d <= b.n * a.d
FLt(a, b) == a.n * b.d < b.n * a.d

-----------------------------------------------------------------------------
(* Strings as character sequences *)

UpperToLower == [A |-> "a", B |-> "b", C |-> "c", D |-> "d", N |-> "n", S |-> "s"]
Whitespace == {" "}

toLowerCase(s) ==
    [i \in 1..Len(s) |-> IF s[i] \in DOMAIN UpperToLower THEN UpperToLower[s[i]] ELSE s[i]]

RECURSIVE replaceWhitespaceRuns(_)
\* String.prototype.replace(/\s+/g, '_'): every maximal run of whitespace
\* becomes one underscore
replaceWhitespaceRuns(s) ==
    IF s = <<>> THEN <<>>
    ELSE IF s[1] \in Whitespace
         THEN IF Len(s) > 1 /\ s[2] \in Whitespace
              THEN replaceWhitespaceRuns(Tail(s))
              ELSE <<"_">> \o replaceWhitespaceRuns(Tail(s))
         ELSE <<s[1]>> \o replaceWhitespaceRuns(Tail(s))

startsWith(s, p) == Len(p) <= Len(s) /\ SubSeq(s, 1, Len(p)) = p

getAssetKey(categoryId, source, name) ==
    replaceWhitespaceRuns(toLowerCase(categoryId \o <<"_">> \o source \o <<"_">> \o name))

-----------------------------------------------------------------------------
(* Portfolio documents *)

NullDoc == [kind |-> "null"]
MalformedDoc == [kind |-> "malformed"]
OkDoc(cats) == [kind |-> "ok", portfolio |-> cats]

\* !portfolioData || !portfolioData.portfolio
NoPortfolio(d) == d.kind # "ok"

RawItem(name, source, val) ==
    [name |-> name, source |-> source, val |-> val,
     originalVal |-> Undefined, isVirtual |-> Undefined,
     adjustment |-> Undefined, adjustmentHistory |-> Undefined]

Category(id, title, color, items) ==
    [id |-> id, title |-> title, color |-> color, items |-> items]

InputTitle == <<"T">>
InputColor == "#3182ce"

SrcS == <<"s">>
CatC == <<"c">>
CatD == <<"d">>
NameN == <<"n">>
NameUpperN == <<"N">>
NameM == <<"m">>

\* A document shape gives, per category, <<id, names of its entries>>; the
\* documents of a shape take every value 0..maxVal for every entry.
ItemsNamed(names, maxVal) ==
    {[i \in 1..Len(names) |-> RawItem(names[i], SrcS, v[i])] : v \in [1..Len(names) -> 0..maxVal]}

RECURSIVE CategoriesOfShape(_, _)
CategoriesOfShape(shape, maxVal) ==
    IF shape = <<>> THEN {<<>>}
    ELSE {<<Category(shape[1][1], InputTitle, InputColor, its)>> \o rest :
             its \in ItemsNamed(shape[1][2], maxVal),
             rest \in CategoriesOfShape(Tail(shape), maxVal)}

DocsOfShapes(shapes, maxVal) ==
    UNION {{OkDoc(cats) : cats \in CategoriesOfShape(sh, maxVal)} : sh \in shapes}

-----------------------------------------------------------------------------
(* Snapshot Builder: buildSnapshot, src/js/data-service.js 343-385 *)

EmptySnapshot == [total |-> 0, categories |-> EmptyMap, assetMap |-> EmptyMap]

\* the assetData record built for one item (lines 364-373)
AssetData(cat, item) ==
    [key |-> getAssetKey(cat.id, item.source, item.name),
     categoryId |-> cat.id,
     source |-> item.source,
     name |-> item.name,
     val |-> item.val,
     originalVal |-> IF item.originalVal = Undefined THEN item.val ELSE item.originalVal[1],
     isVirtual |-> IF item.isVirtual = Undefined THEN FALSE ELSE item.isVirtual[1],
     adjustment |-> IF item.adjustment = Undefined THEN 0 ELSE item.adjustment[1]]

RECURSIVE SnapshotItems(_, _, _)
\* cat.items.forEach (lines 362-378): acc = [catData, assetMap]
SnapshotItems(cat, items, acc) ==
    IF items = <<>> THEN acc
    ELSE LET item == Head(items)
             assetData == AssetData(cat, item)
         IN SnapshotItems(cat, Tail(items),
                [catData |-> [acc.catData EXCEPT
                                 !.items = Put(@, assetData.key, assetData),
                                 !.total = @ + item.val],
                 assetMap |-> Put(acc.assetMap, assetData.key, assetData)])

RECURSIVE SnapshotCategories(_, _)
\* portfolioData.portfolio.forEach (lines 353-382)
SnapshotCategories(cats, snap) ==
    IF cats = <<>> THEN snap
    ELSE LET cat == Head(cats)
             catData0 == [id |-> cat.id, title |-> cat.title, color |-> cat.color,
                          total |-> 0, items |-> EmptyMap]
             r == SnapshotItems(cat, cat.items,
                                [catData |-> catData0, assetMap |-> snap.assetMap])
         IN SnapshotCategories(Tail(cats),
                [total |-> snap.total + r.catData.total,
                 categories |-> Put(snap.categories, cat.id, r.catData),
                 assetMap |-> r.assetMap])

buildSnapshot(doc) ==
    IF NoPortfolio(doc) THEN EmptySnapshot
    ELSE SnapshotCategories(doc.portfolio, EmptySnapshot)

-----------------------------------------------------------------------------
(* Transfer records *)

Deposit(category, source, name, amount) ==
    [type |-> "deposit", category |-> category, source |-> source, name |-> name,
     amount |-> amount]

Withdraw(category, source, name, amount) ==
    [type |-> "withdraw", category |-> category, source |-> source, name |-> name,
     amount |-> amount]

Move(fc, fs, fn, tc, ts, tn, amount) ==
    [type |-> "move", from_category |-> fc, from_source |-> fs, from_name |-> fn,
     to_category |-> tc, to_source |-> ts, to_name |-> tn, amount |-> amount]

\* every transfer between the given targets <<category, source, name>>
TransfersOver(targets, amounts) ==
    {Deposit(t[1], t[2], t[3], a) : t \in targets, a \in amounts}
    \cup {Withdraw(t[1], t[2], t[3], a) : t \in targets, a \in amounts}
    \cup {Move(f[1], f[2], f[3], t[1], t[2], t[3], a) : f \in targets, t \in targets, a \in amounts}

RECURSIVE SumAmounts(_, _)
\* the sum of the amounts of the transfers of one type
SumAmounts(list, type) ==
    IF list = <<>> THEN 0
    ELSE (IF Head(list).type = type THEN Head(list).amount ELSE 0) + SumAmounts(Tail(list), type)

-----------------------------------------------------------------------------
(* Transfer Merger: mergeTransfers / applyTransferOperation, lines 1050-1112 *)

\* portfolio.find(c => c.id === categoryId) as an index: the first category with
\* that id, 0 when there is none (line 1070)
FindCategory(cats, categoryId) ==
    IF \E i \in 1..Len(cats) : cats[i].id = categoryId
    THEN CHOOSE i \in 1..Len(cats) :
             /\ cats[i].id = categoryId
             /\ \A j \in 1..(i - 1) : cats[j].id # categoryId
    ELSE 0

\* items.find(i => i.name === assetName && i.source === source) as an index (line 1084)
FindAsset(items, assetName, source) ==
    IF \E i \in 1..Len(items) : items[i].name = assetName /\ items[i].source = source
    THEN CHOOSE i \in 1..Len(items) :
             /\ items[i].name = assetName /\ items[i].source = source
             /\ \A j \in 1..(i - 1) : ~(items[j].name = assetName /\ items[j].source = source)
    ELSE 0

DefaultColor == "#cbd5e0"

\* mutant: originalVal is taken at every touch
AdjustAsset_OriginalAtEveryTouch(asset, amount) ==
    [asset EXCEPT
        !.originalVal = Some(asset.val),
        !.adjustmentHistory = Some(Append(IF @ = Undefined THEN <<>> ELSE @[1], amount)),
        !.val = @ + amount,
        !.isVirtual = Some(TRUE),
        !.adjustment = Some((IF @ = Undefined THEN 0 ELSE @[1]) + amount)]

\* mutant: adjustment holds the last amount only
AdjustAsset_LastAmount(asset, amount) ==
    [asset EXCEPT
        !.originalVal = IF @ = Undefined THEN Some(asset.val) ELSE @,
        !.adjustmentHistory = Some(Append(IF @ = Undefined THEN <<>> ELSE @[1], amount)),
        !.val = @ + amount,
        !.isVirtual = Some(TRUE),
        !.adjustment = Some(amount)]

\* lines 1095-1111: the mutation of the located asset
AdjustAsset(asset, amount) ==
    [asset EXCEPT
        !.originalVal = IF @ = Undefined THEN Some(asset.val) ELSE @,
        !.adjustmentHistory = Some(Append(IF @ = Undefined THEN <<>> ELSE @[1], amount)),
        !.val = @ + amount,
        !.isVirtual = Some(TRUE),
        !.adjustment = Some((IF @ = Undefined THEN 0 ELSE @[1]) + amount)]

applyTransferOperation(doc, categoryId, source, assetName, amount) ==
    LET cats0 == doc.portfolio
        ci0 == FindCategory(cats0, categoryId)
        cats1 == IF ci0 = 0
                 THEN Append(cats0, Category(categoryId, categoryId, DefaultColor, <<>>))
                 ELSE cats0
        ci == IF ci0 = 0 THEN Len(cats1) ELSE ci0
        items0 == cats1[ci].items
        ii0 == FindAsset(items0, assetName, source)
        items1 == IF ii0 = 0 THEN Append(items0, RawItem(assetName, source, 0)) ELSE items0
        ii == IF ii0 = 0 THEN Len(items1) ELSE ii0
        items2 == [items1 EXCEPT ![ii] = AdjustAsset(@, amount)]
    IN [doc EXCEPT !.portfolio = [cats1 EXCEPT ![ci].items = items2]]

\* mutant: a move applied as a relocation of the "to" side only
MergeOne_MoveOneSided(doc, t) ==
    IF t.type = "deposit"
    THEN applyTransferOperation(doc, t.category, t.source, t.name, t.amount)
    ELSE IF t.type = "withdraw"
    THEN applyTransferOperation(doc, t.category, t.source, t.name, -t.amount)
    ELSE IF t.type = "move"
    THEN applyTransferOperation(doc, t.to_category, t.to_source, t.to_name, t.amount)
    ELSE doc

\* one iteration of transfers.forEach (lines 1054-1063)
MergeOne(doc, t) ==
    IF t.type = "deposit"
    THEN applyTransferOperation(doc, t.category, t.source, t.name, t.amount)
    ELSE IF t.type = "withdraw"
    THEN applyTransferOperation(doc, t.category, t.source, t.name, -t.amount)
    ELSE IF t.type = "move"
    THEN applyTransferOperation(
             applyTransferOperation(doc, t.from_category, t.from_source, t.from_name, -t.amount),
             t.to_category, t.to_source, t.to_name, t.amount)
    ELSE doc

RECURSIVE MergeAll(_, _)
MergeAll(doc, list) ==
    IF list = <<>> THEN doc ELSE MergeAll(MergeOne(doc, Head(list)), Tail(list))

\* mutant: every asset is prepared for adjustments before the list is looked at
mergeTransfers_MarkAll(doc, trs) ==
    IF NoPortfolio(doc) THEN doc
    ELSE LET MarkItem(it) == [it EXCEPT !.originalVal = Some(it.val),
                                        !.adjustmentHistory = Some(<<>>)]
             MarkCat(c) == [c EXCEPT !.items = [j \in 1..Len(c.items) |-> MarkItem(c.items[j])]]
             marked == [doc EXCEPT !.portfolio =
                           [i \in 1..Len(doc.portfolio) |-> MarkCat(doc.portfolio[i])]]
         IN MergeAll(marked, IF trs = Undefined THEN <<>> ELSE trs[1])

\* transfers is Undefined (absent) or Some(list)
mergeTransfers(doc, trs) ==
    IF trs = Undefined \/ Len(trs[1]) = 0 THEN doc
    ELSE IF NoPortfolio(doc) THEN doc
    ELSE MergeAll(doc, trs[1])

RECURSIVE SumItemVals(_)
SumItemVals(items) ==
    IF items = <<>> THEN 0 ELSE Head(items).val + SumItemVals(Tail(items))

RECURSIVE SumCategories(_)
SumCategories(cats) ==
    IF cats = <<>> THEN 0 ELSE SumItemVals(Head(cats).items) + SumCategories(Tail(cats))

\* lines 969-976
calculateTotalBalance(doc) ==
    IF NoPortfolio(doc) THEN 0 ELSE SumCategories(doc.portfolio)


-----------------------------------------------------------------------------
(* Adjustment Aggregator: getAdjustmentsPerAsset, lines 390-422 *)

ZeroAdjustment == [deposits |-> 0, withdraws |-> 0, net |-> 0]

\* if (!adjustments[key]) adjustments[key] = {deposits: 0, withdraws: 0, net: 0}
EnsureKey(adj, key) == IF key \in DOMAIN adj THEN adj ELSE Put(adj, key, ZeroAdjustment)

\* lines 399-400, 416-417: deposits += amount; net += amount
AddDeposit(adj, key, amount) ==
    LET a == EnsureKey(adj, key)
    IN [a EXCEPT ![key].deposits = @ + amount, ![key].net = @ + amount]

\* mutant: the withdrawn amount is added to net instead of subtracted
AddWithdraw_NetAdded(adj, key, amount) ==
    LET a == EnsureKey(adj, key)
    IN [a EXCEPT ![key].withdraws = @ + amount, ![key].net = @ + amount]

\* lines 404-405, 412-413: withdraws += amount; net -= amount
AddWithdraw(adj, key, amount) ==
    LET a == EnsureKey(adj, key)
    IN [a EXCEPT ![key].withdraws = @ + amount, ![key].net = @ - amount]

\* one iteration of transfers.forEach (lines 395-418)
AdjustOne(adj, t) ==
    IF t.type = "deposit"
    THEN AddDeposit(adj, getAssetKey(t.category, t.source, t.name), t.amount)
    ELSE IF t.type = "withdraw"
    THEN AddWithdraw(adj, getAssetKey(t.category, t.source, t.name), t.amount)
    ELSE IF t.type = "move"
    THEN AddDeposit(
             AddWithdraw(adj, getAssetKey(t.from_category, t.from_source, t.from_name), t.amount),
             getAssetKey(t.to_category, t.to_source, t.to_name), t.amount)
    ELSE adj

RECURSIVE AdjustAll(_, _)
AdjustAll(adj, list) ==
    IF list = <<>> THEN adj ELSE AdjustAll(AdjustOne(adj, Head(list)), Tail(list))

\* if (!transfers || !portfolioData) return adjustments  (line 393)
AdjustmentsSkipped(trs, doc) == trs = Undefined \/ doc.kind = "null"

getAdjustmentsPerAsset(trs, doc) ==
    IF AdjustmentsSkipped(trs, doc) THEN EmptyMap ELSE AdjustAll(EmptyMap, trs[1])

-----------------------------------------------------------------------------
(* Comparator: calculateDelta and compareSnapshots, lines 427-529 *)

\* mutant: percent taken relative to the previous value, not the adjusted start
calculateDelta_PercentOfPrevious(currentVal, previousVal, adjustment) ==
    LET adjustedStart == previousVal + adjustment
        delta == currentVal - adjustedStart
    IN [delta |-> delta,
        percent |-> IF previousVal > 0 THEN Frac(delta * 100, previousVal) ELSE FInt(0),
        adjustedStart |-> adjustedStart,
        previousVal |-> previousVal,
        currentVal |-> currentVal]

calculateDelta(currentVal, previousVal, adjustment) ==
    LET adjustedStart == previousVal + adjustment
        delta == currentVal - adjustedStart
    IN [delta |-> delta,
        percent |-> IF adjustedStart > 0 THEN Frac(delta * 100, adjustedStart) ELSE FInt(0),
        adjustedStart |-> adjustedStart,
        previousVal |-> previousVal,
        currentVal |-> currentVal]

\* previousSnapshot?.assetMap || {} and previousSnapshot?.categories || {}
AssetMapOf(snap) == IF snap = None THEN EmptyMap ELSE snap.assetMap
CategoriesOf(snap) == IF snap = None THEN EmptyMap ELSE snap.categories

\* mutant: an asset is new whenever it is worth something now and nothing before
AssetStatus_NewByValue(currentVal, previousVal, hasPrevious) ==
    IF currentVal > 0 /\ previousVal = 0 THEN "new"
    ELSE IF currentVal = 0 /\ previousVal > 0 THEN "ghost"
    ELSE IF currentVal = 0 /\ previousVal = 0 THEN "hidden"
    ELSE "normal"

\* lines 478-485
AssetStatus(currentVal, previousVal, hasPrevious) ==
    IF currentVal > 0 /\ ~hasPrevious THEN "new"
    ELSE IF currentVal = 0 /\ previousVal > 0 THEN "ghost"
    ELSE IF currentVal = 0 /\ previousVal = 0 THEN "hidden"
    ELSE "normal"

\* lines 467-494: the record of one asset key (identifiers are non-empty, so
\* current?.x || previous?.x is the current side whenever it exists)
CompareAsset(cur, prev, adj, key) ==
    LET hasCurrent == key \in DOMAIN cur.assetMap
        hasPrevious == key \in DOMAIN AssetMapOf(prev)
        net == IF key \in DOMAIN adj THEN adj[key].net ELSE 0
        currentVal == IF hasCurrent THEN cur.assetMap[key].val ELSE 0
        previousVal == IF hasPrevious THEN prev.assetMap[key].val ELSE 0
        deltaInfo == calculateDelta(currentVal, previousVal, net)
        side == IF hasCurrent THEN cur.assetMap[key] ELSE prev.assetMap[key]
    IN [delta |-> deltaInfo.delta,
        percent |-> deltaInfo.percent,
        adjustedStart |-> deltaInfo.adjustedStart,
        previousVal |-> deltaInfo.previousVal,
        currentVal |-> deltaInfo.currentVal,
        status |-> AssetStatus(currentVal, previousVal, hasPrevious),
        categoryId |-> side.categoryId,
        source |-> side.source,
        name |-> side.name]

\* lines 507-512: the net adjustments of the keys that start with catId + '_'
CategoryAdjustment(adj, catId) ==
    SumSet([k \in DOMAIN adj |-> IF startsWith(k, catId \o <<"_">>) THEN adj[k].net ELSE 0],
           DOMAIN adj)

\* lines 502-518
CompareCategory(cur, prev, adj, catId) ==
    LET currentTotal == IF catId \in DOMAIN cur.categories THEN cur.categories[catId].total ELSE 0
        previousTotal == IF catId \in DOMAIN CategoriesOf(prev)
                         THEN prev.categories[catId].total ELSE 0
    IN calculateDelta(currentTotal, previousTotal, CategoryAdjustment(adj, catId))

\* mutant: the portfolio level is adjusted by the deposits only
ComparePortfolio_DepositsOnly(cur, prev, adj) ==
    calculateDelta(cur.total,
                   IF prev = None THEN 0 ELSE prev.total,
                   SumSet([k \in DOMAIN adj |-> adj[k].deposits], DOMAIN adj))

\* lines 521-526
ComparePortfolio(cur, prev, adj) ==
    calculateDelta(cur.total,
                   IF prev = None THEN 0 ELSE prev.total,
                   SumSet([k \in DOMAIN adj |-> adj[k].net], DOMAIN adj))

compareSnapshots(cur, prev, adj) ==
    LET allAssetKeys == (DOMAIN cur.assetMap) \cup (DOMAIN AssetMapOf(prev))
        allCatIds == (DOMAIN cur.categories) \cup (DOMAIN CategoriesOf(prev))
    IN [portfolio |-> ComparePortfolio(cur, prev, adj),
        categories |-> [c \in allCatIds |-> CompareCategory(cur, prev, adj, c)],
        assets |-> [k \in allAssetKeys |-> CompareAsset(cur, prev, adj, k)]]

-----------------------------------------------------------------------------
(* Performance Calculator: calculatePerformance, lines 984-1040 *)

\* 0.01 in hundredths
Cent == 1

RECURSIVE PerformanceTotals(_, _)
\* lines 1003-1011: the forEach that accumulates totalDeposits and totalWithdraws
PerformanceTotals(list, acc) ==
    IF list = <<>> THEN acc
    ELSE LET t == Head(list)
             next == IF t.type = "deposit"
                     THEN [acc EXCEPT !.totalDeposits = @ + t.amount]
                     ELSE IF t.type = "withdraw"
                          THEN [acc EXCEPT !.totalWithdraws = @ + t.amount]
                          ELSE acc
         IN PerformanceTotals(Tail(list), next)

\* mutant: the return is taken on start balance plus net flow
calculatePerformance_CapitalIsNetFlow(startBalance, endBalance, transferList, isFirstMonth) ==
    IF isFirstMonth
    THEN [startBalance |-> 0, endBalance |-> endBalance, totalDeposits |-> endBalance,
          totalWithdraws |-> 0, netFlow |-> endBalance, profit |-> 0,
          yieldPercent |-> FInt(0)]
    ELSE LET totals == IF transferList = Undefined
                       THEN [totalDeposits |-> 0, totalWithdraws |-> 0]
                       ELSE PerformanceTotals(transferList[1],
                                              [totalDeposits |-> 0, totalWithdraws |-> 0])
             netFlow == totals.totalDeposits - totals.totalWithdraws
             profit == endBalance - (startBalance + netFlow)
             investedCapital == startBalance + netFlow
         IN [startBalance |-> startBalance, endBalance |-> endBalance,
             totalDeposits |-> totals.totalDeposits,
             totalWithdraws |-> totals.totalWithdraws,
             netFlow |-> netFlow, profit |-> profit,
             yieldPercent |-> IF investedCapital > Cent
                              THEN Frac(profit * 100, investedCapital)
                              ELSE IF profit > 0 THEN FInt(100) ELSE FInt(0)]

calculatePerformance(startBalance, endBalance, transferList, isFirstMonth) ==
    IF isFirstMonth
    THEN [startBalance |-> 0, endBalance |-> endBalance, totalDeposits |-> endBalance,
          totalWithdraws |-> 0, netFlow |-> endBalance, profit |-> 0,
          yieldPercent |-> FInt(0)]
    ELSE LET totals == IF transferList = Undefined
                       THEN [totalDeposits |-> 0, totalWithdraws |-> 0]
                       ELSE PerformanceTotals(transferList[1],
                                              [totalDeposits |-> 0, totalWithdraws |-> 0])
             netFlow == totals.totalDeposits - totals.totalWithdraws
             profit == endBalance - (startBalance + netFlow)
             investedCapital == startBalance + totals.totalDeposits
         IN [startBalance |-> startBalance, endBalance |-> endBalance,
             totalDeposits |-> totals.totalDeposits,
             totalWithdraws |-> totals.totalWithdraws,
             netFlow |-> netFlow, profit |-> profit,
             yieldPercent |-> IF investedCapital > Cent
                              THEN Frac(profit * 100, investedCapital)
                              ELSE IF profit > 0 THEN FInt(100) ELSE FInt(0)]

-----------------------------------------------------------------------------
(* Forecast arithmetic: calculateYTD and calculateProjectedAnnual, lines 668-688 *)

RECURSIVE Compound(_, _)
\* lines 669-672: compounded *= (1 + r) for every entry, from the left
Compound(yields, compounded) ==
    IF yields = <<>> THEN compounded
    ELSE Compound(Tail(yields), FMul(compounded, FAdd(FInt(1), Head(yields))))

\* mutant: the monthly yields are added up
calculateYTD_Additive(yields) ==
    LET Sum[i \in 0..Len(yields)] == IF i = 0 THEN FInt(0) ELSE FAdd(Sum[i - 1], yields[i])
    IN Sum[Len(yields)]

calculateYTD(yields) == FSub(Compound(yields, FInt(1)), FInt(1))

RECURSIVE FPow(_, _)
\* base to a whole power
FPow(base, e) == IF e = 0 THEN FInt(1) ELSE FMul(base, FPow(base, e - 1))

\* a number known exactly, and base^exponent - 1 for a power that is not rational
Exact(f) == [kind |-> "exact", value |-> f]
PowerMinusOne(base, exponent) == [kind |-> "power", base |-> base, exponent |-> exponent]

\* Math.pow(base, exponent) - 1 for base > 0 (line 687): computed when the
\* exponent is whole or the base is 1, kept as the power otherwise
PowMinusOne(base, exponent) ==
    IF exponent.d = 1
    THEN Exact(FSub(FPow(base, exponent.n), FInt(1)))
    ELSE IF base = FInt(1) THEN Exact(FInt(0)) ELSE PowerMinusOne(base, exponent)

\* mutant: the base is not guarded
calculateProjectedAnnual_Unguarded(ytd, monthsPassed) ==
    IF monthsPassed <= 0 THEN Exact(FInt(0))
    ELSE PowMinusOne(FAdd(FInt(1), ytd), Frac(12, monthsPassed))

calculateProjectedAnnual(ytd, monthsPassed) ==
    IF monthsPassed <= 0 THEN Exact(FInt(0))
    ELSE LET exponent == Frac(12, monthsPassed)
             base == FAdd(FInt(1), ytd)
         IN IF FLe(base, FInt(0)) THEN Exact(FInt(-1))
            ELSE PowMinusOne(base, exponent)

-----------------------------------------------------------------------------
(* Month loading: getPreviousMonthId (958-964), the fetches (1186-1229) and
   loadMonth (1235-1327) *)

\* availableMonths.findIndex(m => m.id === currentId), counted from 0
FindMonthIndex(currentId) ==
    IF \E i \in 1..Len(availableMonths) : availableMonths[i].id = currentId
    THEN (CHOOSE i \in 1..Len(availableMonths) :
              /\ availableMonths[i].id = currentId
              /\ \A j \in 1..(i - 1) : availableMonths[j].id # currentId) - 1
    ELSE -1

\* mutant: the first month is its own predecessor
getPreviousMonthId_SelfAtStart(currentId) ==
    LET currentIndex == FindMonthIndex(currentId)
    IN IF currentIndex > 0 THEN availableMonths[currentIndex].id
       ELSE IF currentIndex = 0 THEN currentId ELSE NoMonth

getPreviousMonthId(currentId) ==
    LET currentIndex == FindMonthIndex(currentId)
    IN IF currentIndex > 0 THEN availableMonths[currentIndex].id ELSE NoMonth

\* the parsed JSON of <monthId>.json, or null
fetchPortfolioData(monthId) == files.portfolio[monthId]

\* lines 1196-1229: the groups of the month's transfer files that hold
\* transfers (the month has one transfer file in this model)
fetchTransfersForMonth(monthId) ==
    IF files.transfers[monthId] = <<>> THEN <<>>
    ELSE <<[date |-> monthId, transfers |-> files.transfers[monthId]]>>

RECURSIVE FlatTransfers(_)
\* groups.flatMap(g => g.transfers)
FlatTransfers(groups) ==
    IF groups = <<>> THEN <<>> ELSE Head(groups).transfers \o FlatTransfers(Tail(groups))

-----------------------------------------------------------------------------
(* Forecast Engine: calculateSimpleYield (639-664), fetchYearSequence (610-633)
   and calculateYearStats (692-788) *)

RECURSIVE YieldTotals(_, _)
\* lines 644-647: the forEach of calculateSimpleYield (two independent ifs)
YieldTotals(list, acc) ==
    IF list = <<>> THEN acc
    ELSE LET t == Head(list)
             afterDeposit == IF t.type = "deposit"
                             THEN [acc EXCEPT !.deposits = @ + t.amount] ELSE acc
             afterWithdraw == IF t.type = "withdraw"
                              THEN [afterDeposit EXCEPT !.withdraws = @ + t.amount]
                              ELSE afterDeposit
         IN YieldTotals(Tail(list), afterWithdraw)

\* mutant: capital of exactly 0.01 is divided by
calculateSimpleYield_BelowCent(startBalance, endBalance, transferList) ==
    LET totals == IF transferList = Undefined
                  THEN [deposits |-> 0, withdraws |-> 0]
                  ELSE YieldTotals(transferList[1], [deposits |-> 0, withdraws |-> 0])
        netFlow == totals.deposits - totals.withdraws
        profit == endBalance - (startBalance + netFlow)
        investedCapital == startBalance + totals.deposits
    IN IF investedCapital < Cent
       THEN IF profit > 0 THEN FInt(1) ELSE FInt(0)
       ELSE Frac(profit, investedCapital)

calculateSimpleYield(startBalance, endBalance, transferList) ==
    LET totals == IF transferList = Undefined
                  THEN [deposits |-> 0, withdraws |-> 0]
                  ELSE YieldTotals(transferList[1], [deposits |-> 0, withdraws |-> 0])
        netFlow == totals.deposits - totals.withdraws
        profit == endBalance - (startBalance + netFlow)
        investedCapital == startBalance + totals.deposits
    IN IF investedCapital <= Cent
       THEN IF profit > 0 THEN FInt(1) ELSE FInt(0)
       ELSE Frac(profit, investedCapital)

\* the characters of the month ids
IdChars ==
    ("2026-01" :> <<"2", "0", "2", "6", "-", "0", "1">>) @@
    ("2026-02" :> <<"2", "0", "2", "6", "-", "0", "2">>) @@
    ("2026-03" :> <<"2", "0", "2", "6", "-", "0", "3">>)

\* the month id written with the given characters
MonthIdOf(chars) == CHOOSE id \in DOMAIN IdChars : IdChars[id] = chars

Digits == <<"0", "1", "2", "3", "4", "5", "6", "7", "8", "9">>
DigitValue(c) == (CHOOSE i \in DOMAIN Digits : Digits[i] = c) - 1
IsDigit(c) == \E i \in DOMAIN Digits : Digits[i] = c

RECURSIVE split(_, _)
\* String.prototype.split with a one-character separator
split(s, sep) ==
    IF \E i \in 1..Len(s) : s[i] = sep
    THEN LET i == CHOOSE j \in 1..Len(s) : s[j] = sep /\ \A k \in 1..(j - 1) : s[k] # sep
         IN <<SubSeq(s, 1, i - 1)>> \o split(SubSeq(s, i + 1, Len(s)), sep)
    ELSE <<s>>

RECURSIVE ParseDigits(_, _)
ParseDigits(s, acc) ==
    IF s = <<>> \/ ~IsDigit(Head(s)) THEN acc
    ELSE ParseDigits(Tail(s), acc * 10 + DigitValue(Head(s)))

\* parseInt of a string that starts with a digit
parseInt(s) == ParseDigits(s, 0)

RECURSIVE DecimalString(_)
\* String(m) for m >= 0
DecimalString(m) ==
    IF m < 10 THEN <<Digits[m + 1]>>
    ELSE DecimalString(m \div 10) \o <<Digits[(m % 10) + 1]>>

RECURSIVE padStart(_, _, _)
padStart(s, targetLength, c) ==
    IF Len(s) >= targetLength THEN s ELSE padStart(<<c>> \o s, targetLength, c)

\* the order of the characters of a month id
CharRank(c) == IF c = "-" THEN 0 ELSE 1 + DigitValue(c)

RECURSIVE localeCompare(_, _)
\* a.localeCompare(b) on month ids: negative, 0 or positive
localeCompare(a, b) ==
    IF a = <<>> /\ b = <<>> THEN 0
    ELSE IF a = <<>> THEN -1
    ELSE IF b = <<>> THEN 1
    ELSE IF CharRank(Head(a)) < CharRank(Head(b)) THEN -1
    ELSE IF CharRank(Head(a)) > CharRank(Head(b)) THEN 1
    ELSE localeCompare(Tail(a), Tail(b))

\* lines 611-618: the ids of the months 01..monthIndex of the target's year
YearSequenceIds(targetMonthId) ==
    LET parts == split(IdChars[targetMonthId], "-")
        year == parts[1]
        monthIndex == parseInt(parts[2])
    IN [mo \in 1..monthIndex |->
           MonthIdOf(year \o <<"-">> \o padStart(DecimalString(mo), 2, "0"))]

\* lines 622-626: what the promise of one month resolves to
YearItem(id) ==
    [id |-> id,
     data |-> fetchPortfolioData(id),
     transfers |-> FlatTransfers(fetchTransfersForMonth(id))]

RECURSIVE InsertById(_, _)
InsertById(sorted, item) ==
    IF sorted = <<>> THEN <<item>>
    ELSE IF localeCompare(IdChars[item.id], IdChars[Head(sorted).id]) < 0
         THEN <<item>> \o sorted
         ELSE <<Head(sorted)>> \o InsertById(Tail(sorted), item)

RECURSIVE SortById(_)
\* line 632: results.sort((a, b) => a.id.localeCompare(b.id))
SortById(results) ==
    IF results = <<>> THEN <<>>
    ELSE InsertById(SortById(SubSeq(results, 1, Len(results) - 1)), results[Len(results)])

\* lines 696-703: the locals of calculateYearStats before the loop
ChainStart ==
    [yields |-> <<>>, currentMonthYield |-> FInt(0), currentMonthProfit |-> 0,
     prevBalance |-> 0, accumulatedNetFlow |-> 0]

\* mutant: the first month is treated like every other month
YearStep_NoZeroKilometer(chain, item, index, targetMonthId) ==
    IF item.data = NullDoc
    THEN [chain EXCEPT !.yields = Append(@, FInt(0))]
    ELSE LET monthData == item.data
             endBalance == calculateTotalBalance(mergeTransfers(monthData, Some(item.transfers)))
             startBalance == chain.prevBalance
             totals == YieldTotals(item.transfers, [deposits |-> 0, withdraws |-> 0])
             mNetFlow == totals.deposits - totals.withdraws
             yieldVal == calculateSimpleYield(startBalance, endBalance, Some(item.transfers))
             profitVal == endBalance - (startBalance + mNetFlow)
         IN [yields |-> Append(chain.yields, yieldVal),
             currentMonthYield |-> IF item.id = targetMonthId THEN yieldVal
                                   ELSE chain.currentMonthYield,
             currentMonthProfit |-> IF item.id = targetMonthId THEN profitVal
                                    ELSE chain.currentMonthProfit,
             prevBalance |-> endBalance,
             accumulatedNetFlow |-> chain.accumulatedNetFlow + mNetFlow]

\* mutant: a month without a document gets no entry in the chain
YearStep_SkipMissing(chain, item, index, targetMonthId) ==
    IF item.data = NullDoc THEN chain
    ELSE IF index = 0
         THEN [YearStep_NoZeroKilometer(chain, item, index, targetMonthId) EXCEPT
                  !.yields = Append(chain.yields, FInt(0)),
                  !.currentMonthYield = FInt(0),
                  !.currentMonthProfit = 0,
                  !.accumulatedNetFlow = chain.accumulatedNetFlow
                      + calculateTotalBalance(mergeTransfers(item.data, Some(item.transfers)))]
         ELSE YearStep_NoZeroKilometer(chain, item, index, targetMonthId)

\* lines 706-763: one iteration of the loop over the sequence; index is
\* sequence.indexOf(item).  The deep copy of line 716 keeps item.data as it is.
YearStep(chain, item, index, targetMonthId) ==
    IF item.data = NullDoc
    THEN [chain EXCEPT !.yields = Append(@, FInt(0))]
    ELSE LET monthData == item.data
             endBalance == calculateTotalBalance(mergeTransfers(monthData, Some(item.transfers)))
             startBalance == chain.prevBalance
             totals == YieldTotals(item.transfers, [deposits |-> 0, withdraws |-> 0])
             mNetFlow == totals.deposits - totals.withdraws
             first == (index = 0)
             yieldVal == IF first THEN FInt(0)
                         ELSE calculateSimpleYield(startBalance, endBalance, Some(item.transfers))
             profitVal == IF first THEN 0 ELSE endBalance - (startBalance + mNetFlow)
         IN [yields |-> Append(chain.yields, yieldVal),
             currentMonthYield |-> IF item.id = targetMonthId THEN yieldVal
                                   ELSE chain.currentMonthYield,
             currentMonthProfit |-> IF item.id = targetMonthId THEN profitVal
                                    ELSE chain.currentMonthProfit,
             prevBalance |-> endBalance,
             accumulatedNetFlow |-> chain.accumulatedNetFlow
                                        + (IF first THEN endBalance ELSE mNetFlow)]

\* line 778: currentEndBalance * projected
ProjectedProfit(currentEndBalance, projected) ==
    IF projected.kind = "exact"
    THEN Exact(FMul(FInt(currentEndBalance), projected.value))
    ELSE [kind |-> "product", factor |-> currentEndBalance, of |-> projected]

\* mutant: the whole balance is reported as the profit of the year
YearStats_BalanceAsProfit(chain, sequence) ==
    LET ytd == calculateYTD(chain.yields)
        projected == calculateProjectedAnnual(ytd, Len(sequence))
    IN [monthYield |-> chain.currentMonthYield,
        monthProfit |-> chain.currentMonthProfit,
        ytd |-> ytd,
        ytdProfit |-> chain.prevBalance,
        projected |-> projected,
        projectedProfit |-> ProjectedProfit(chain.prevBalance, projected)]

\* lines 766-787: what calculateYearStats returns after the loop
YearStats(chain, sequence) ==
    LET ytd == calculateYTD(chain.yields)
        currentEndBalance == chain.prevBalance
        monthsPassed == Len(sequence)
        projected == calculateProjectedAnnual(ytd, monthsPassed)
    IN [monthYield |-> chain.currentMonthYield,
        monthProfit |-> chain.currentMonthProfit,
        ytd |-> ytd,
        ytdProfit |-> currentEndBalance - chain.accumulatedNetFlow,
        projected |-> projected,
        projectedProfit |-> ProjectedProfit(currentEndBalance, projected)]

RECURSIVE YearChain(_, _, _, _)
\* lines 706-763: the loop over the sequence from position pos on
YearChain(sequence, pos, chain, targetMonthId) ==
    IF pos > Len(sequence) THEN chain
    ELSE YearChain(sequence, pos + 1,
                   YearStep(chain, sequence[pos], pos - 1, targetMonthId), targetMonthId)

\* calculateYearStats once all its fetches have been answered
calculateYearStats(targetMonthId) ==
    LET ids == YearSequenceIds(targetMonthId)
        sequence == SortById([i \in DOMAIN ids |-> YearItem(ids[i])])
    IN YearStats(YearChain(sequence, 1, ChainStart, targetMonthId), sequence)

\* lines 1256-1303 of loadMonth for a current document with a portfolio list:
\* the fetched objects after the merges, the new values of the globals and
\* the performance record
LoadResults(monthId, prevMonthId, isFirstMonth) ==
    LET currentData == fetchPortfolioData(monthId)
        fetchedPrev == IF prevMonthId # NoMonth THEN fetchPortfolioData(prevMonthId)
                       ELSE NullDoc
        flat == FlatTransfers(fetchTransfersForMonth(monthId))
        prevFlat == IF prevMonthId # NoMonth
                    THEN FlatTransfers(fetchTransfersForMonth(prevMonthId)) ELSE <<>>
        merged == mergeTransfers(currentData, Some(flat))
        mergedPrev == IF fetchedPrev # NullDoc
                      THEN mergeTransfers(fetchedPrev, Some(prevFlat)) ELSE NullDoc
        cur == buildSnapshot(merged)
        prev == IF fetchedPrev # NullDoc THEN buildSnapshot(mergedPrev) ELSE None
        adj == getAdjustmentsPerAsset(Some(flat), merged)
        endBalance == calculateTotalBalance(merged)
        startBalance == IF fetchedPrev # NullDoc THEN calculateTotalBalance(mergedPrev) ELSE 0
    IN [currentData |-> merged,
        prevData |-> mergedPrev,
        currentPortfolioData |-> merged,
        currentTransfersData |-> Some(flat),
        currentSnapshot |-> cur,
        previousSnapshot |-> prev,
        currentComparison |-> IF prev # None THEN compareSnapshots(cur, prev, adj) ELSE None,
        performance |-> calculatePerformance(startBalance, endBalance, Some(flat), isFirstMonth)]

-----------------------------------------------------------------------------
(* Outcomes of the component functions: a call returns a value or throws *)

Returned(v) == [kind |-> "returned", value |-> v]
Thrown(e) == [kind |-> "thrown", error |-> e]

\* a category object that has no items property: cat.items is undefined
ItemlessCategory(id, title, color) == [id |-> id, title |-> title, color |-> color]

HasItemList(cat) == "items" \in DOMAIN cat

\* buildSnapshot, lines 343-385: cat.items.forEach (line 362) is a call on
\* undefined for a category without an item list, a TypeError nothing catches
buildSnapshot_Call(doc) ==
    IF NoPortfolio(doc) THEN Returned(EmptySnapshot)
    ELSE IF \E i \in 1..Len(doc.portfolio) : ~HasItemList(doc.portfolio[i])
         THEN Thrown("TypeError")
         ELSE Returned(buildSnapshot(doc))

\* getAdjustmentsPerAsset, lines 390-422: the guard of line 393 returns the
\* empty map for an absent list or document, a list of records is folded
getAdjustmentsPerAsset_Call(trs, doc) == Returned(getAdjustmentsPerAsset(trs, doc))

\* compareSnapshots, lines 453-529: currentSnapshot.assetMap (line 462) is read
\* without a guard, the previous snapshot through ?. only
compareSnapshots_Call(cur, prev, adj) ==
    IF cur = None THEN Thrown("TypeError") ELSE Returned(compareSnapshots(cur, prev, adj))

-----------------------------------------------------------------------------
(* DataService: isRemote, isConfigured, _fetch, _fetchLocal and _fetchRemote,
   lines 54-131.  dataSource holds the configuration and, per file name, the
   response the transport gives: a status with the parsed body for 200, or
   "failed" when the request itself is rejected (no connection). *)

FileName(kind, monthId) == <<kind, monthId>>

OkResponse(body) == [status |-> "200", body |-> body]

\* the parsed body of a transfer file: a JSON array of transfer records
JsonArray(elements) == [kind |-> "array", elements |-> elements]
ErrorResponse(status) == [status |-> status]

\* lines 54-56
isRemote == dataSource.sourceType = "remote"

\* lines 58-61
isConfigured == IF ~isRemote THEN TRUE ELSE dataSource.configured

\* lines 76-87: every response that is not ok, and every exception, is null
DataService_fetchLocal(filename) ==
    LET response == dataSource.responses[filename]
    IN IF response.status = "failed" THEN Returned(NullDoc)
       ELSE IF response.status # "200" THEN Returned(NullDoc)
       ELSE Returned(response.body)

\* lines 89-131: null without configuration and for 404; 401, 403 and every
\* other status that is not ok throw, and so does a rejected request
DataService_fetchRemote(filename) ==
    LET response == dataSource.responses[filename]
    IN IF ~isConfigured THEN Returned(NullDoc)
       ELSE IF response.status = "failed" THEN Thrown("TypeError: Failed to fetch")
       ELSE IF response.status = "404" THEN Returned(NullDoc)
       ELSE IF response.status \in {"401", "403"} THEN Thrown("Auth Error")
       ELSE IF response.status # "200" THEN Thrown("GitHub API Error")
       ELSE Returned(response.body)

\* lines 68-74
DataService_fetch(filename) ==
    IF isRemote THEN DataService_fetchRemote(filename) ELSE DataService_fetchLocal(filename)

\* lines 137-139 and 1186-1188
fetchPortfolioData_Call(monthId) == DataService_fetch(FileName("portfolio", monthId))

\* the parsed body of a transfer file that is an object with a transfers list
TransferFile(meta, list) == [kind |-> "object", meta |-> meta, transfers |-> list]

\* an object without a transfers property
MetaOnlyFile(meta) == [kind |-> "object", meta |-> meta]

\* line 149: data.transfers is truthy (an array is, even an empty one)
HasTransfers(data) == data.kind = "object" /\ "transfers" \in DOMAIN data

\* mutant: every file is wrapped, also one that has the wrapper
fetchTransfersData_AlwaysWrap(filename) ==
    LET data == DataService_fetch(filename)
    IN IF data.kind = "thrown" THEN data
       ELSE IF data.value = NullDoc THEN Returned(NullDoc)
       ELSE Returned(TransferFile(EmptyMap, data.value))

\* DataService.fetchTransfersData, lines 145-153
fetchTransfersData_Call(filename) ==
    LET data == DataService_fetch(filename)
    IN IF data.kind = "thrown" THEN data
       ELSE IF data.value = NullDoc THEN Returned(NullDoc)
       ELSE IF HasTransfers(data.value) THEN Returned(data.value)
       ELSE Returned(TransferFile(EmptyMap, data.value))

\* lines 1196-1229: the transfers of the month's file, none when the file is
\* absent or holds none; a throwing fetch rejects the Promise.all of line 1220
fetchTransfersForMonth_Call(monthId) ==
    LET data == fetchTransfersData_Call(FileName("transfers", monthId))
    IN IF data.kind = "thrown" THEN data
       ELSE IF data.value = NullDoc THEN Returned(<<>>)
       ELSE IF data.value.transfers.kind # "array" THEN Returned(<<>>)
       ELSE Returned(data.value.transfers.elements)

\* the fetches loadMonth issues at lines 1248-1253
LoadFetches(l) ==
    {FileName(k, l.monthId) : k \in {"portfolio", "transfers"}}
    \cup (IF l.prevMonthId # NoMonth
          THEN {FileName(k, l.prevMonthId) : k \in {"portfolio", "transfers"}} ELSE {})

FetchOutcome(filename) ==
    IF filename[1] = "portfolio" THEN fetchPortfolioData_Call(filename[2])
    ELSE fetchTransfersForMonth_Call(filename[2])

\* line 1248: the names the results of the four fetches are bound to
FetchNames == {"currentData", "prevData", "monthTransfers", "prevMonthTransfers"}

\* mutant: the computations wait for the current document only
AllSettled_CurrentDocument(pending) == "currentData" \notin pending

\* await Promise.all([...]) of line 1248: every promise of the list has resolved
AllSettled(pending) == pending = {}

\* lines 1248-1253: the promises that are not resolved when they are created;
\* without a previous month the two previous fetches are Promise.resolve(...)
LoadPromises(prevMonthId) ==
    IF prevMonthId # NoMonth THEN FetchNames ELSE {"currentData", "monthTransfers"}

-----------------------------------------------------------------------------
(* Specification SpecSnapshot: buildSnapshot applied to every bounded document *)

SnapMaxVal == 2

\* no category, an empty category, one to three entries, entries that repeat a
\* name or differ only in case (one asset key), two categories
SnapShapes ==
    { <<>>,
      << <<CatC, <<>>>> >>,
      << <<CatC, <<NameN>>>> >>,
      << <<CatC, <<NameN, NameM>>>> >>,
      << <<CatC, <<NameN, NameN>>>> >>,
      << <<CatC, <<NameN, NameUpperN>>>> >>,
      << <<CatC, <<NameN, NameM, NameN>>>> >>,
      << <<CatC, <<NameN>>>>, <<CatD, <<NameN>>>> >>,
      << <<CatC, <<NameN, NameM>>>>, <<CatD, <<NameN>>>> >>,
      << <<CatC, <<NameN, NameN>>>>, <<CatD, <<NameM>>>> >> }

SnapshotDocs == {NullDoc, MalformedDoc} \cup DocsOfShapes(SnapShapes, SnapMaxVal)

\* nothing computed yet
NoOutputs ==
    /\ snapshot = None
    /\ previousSnapshot = None
    /\ adjustments = EmptyMap
    /\ comparison = None
    /\ performance = None

NoNumbers ==
    /\ args = None
    /\ result = None

\* no month list, no data source and no load: the specifications of the single
\* functions do not use the page
NoLoad ==
    /\ availableMonths = <<>>
    /\ files = None
    /\ currentMonthId = NoMonth
    /\ load = None
    /\ ui = "blank"
    /\ forecast = None
    /\ calls = <<>>
    /\ dataSource = None

InitSnapshot ==
    /\ pc = "input"
    /\ portfolioData \in SnapshotDocs
    /\ prevData = NullDoc
    /\ transfers = Undefined
    /\ rawData = portfolioData
    /\ NoOutputs
    /\ NoNumbers
    /\ NoLoad

BuildSnapshot ==
    /\ pc = "input"
    /\ snapshot' = buildSnapshot(portfolioData)
    /\ pc' = "done"
    /\ UNCHANGED <<docVars, previousSnapshot, adjustments, comparison, performance, numVars, loadVars>>

NextSnapshot == BuildSnapshot

SpecSnapshot == InitSnapshot /\ [][NextSnapshot]_vars

\* the category totals and the asset values of a snapshot
SumCategoryTotals(snap) ==
    SumSet([c \in DOMAIN snap.categories |-> snap.categories[c].total], DOMAIN snap.categories)

SumAssetMap(snap) ==
    SumSet([k \in DOMAIN snap.assetMap |-> snap.assetMap[k].val], DOMAIN snap.assetMap)

SumCategoryItems(snap) ==
    SumSet([c \in DOMAIN snap.categories |->
               SumSet([k \in DOMAIN snap.categories[c].items |-> snap.categories[c].items[k].val],
                      DOMAIN snap.categories[c].items)],
           DOMAIN snap.categories)

\* C1: for every document the snapshot's total equals the sum of its category
\* totals, and both equal the sum of the values of its asset records (assetMap
\* and per-category items), also when two entries of a category share a key.
C1_TotalsAgree ==
    pc = "done" =>
        /\ snapshot.total = SumCategoryTotals(snapshot)
        /\ snapshot.total = SumAssetMap(snapshot)
        /\ snapshot.total = SumCategoryItems(snapshot)

-----------------------------------------------------------------------------
(* Specification SpecMerge: mergeTransfers applied to bounded documents and
   transfer lists *)

MergeMaxTransfers == 2
MergeMaxVal == 1

\* document shapes: per category its id and the names of its entries
MergeShapes ==
    { <<>>,
      << <<CatC, <<>>>> >>,
      << <<CatC, <<NameN>>>> >>,
      << <<CatC, <<NameN, NameUpperN>>>> >>,
      << <<CatC, <<NameN, NameN>>>> >>,
      << <<CatC, <<NameN>>>>, <<CatD, <<NameN>>>> >> }

MergeDocs == {MalformedDoc} \cup DocsOfShapes(MergeShapes, MergeMaxVal)

\* the assets a transfer may name: one the shapes hold, its other spelling, and
\* one of a category only some shapes hold
AssetCN == <<CatC, SrcS, NameN>>
AssetCUpperN == <<CatC, SrcS, NameUpperN>>
AssetDN == <<CatD, SrcS, NameN>>

MergeTransferKinds ==
    {Deposit(t[1], t[2], t[3], a) : t \in {AssetCN, AssetCUpperN, AssetDN}, a \in {1, 2}}
    \cup {Withdraw(t[1], t[2], t[3], 1) : t \in {AssetCN, AssetCUpperN, AssetDN}}
    \cup {Move(p[1][1], p[1][2], p[1][3], p[2][1], p[2][2], p[2][3], 1) :
             p \in {<<AssetCN, AssetDN>>, <<AssetDN, AssetCN>>,
                    <<AssetCN, AssetCUpperN>>, <<AssetCN, AssetCN>>}}

MergeTransferLists ==
    {Undefined} \cup {Some(l) : l \in SeqsUpTo(MergeTransferKinds, MergeMaxTransfers)}

InitMerge ==
    /\ pc = "input"
    /\ rawData \in MergeDocs
    /\ portfolioData = rawData
    /\ transfers \in MergeTransferLists
    /\ prevData = NullDoc
    /\ NoOutputs
    /\ NoNumbers
    /\ NoLoad

MergeTransfers ==
    /\ pc = "input"
    /\ portfolioData' = mergeTransfers(portfolioData, transfers)
    /\ pc' = "done"
    /\ UNCHANGED <<prevData, transfers, rawData, outVars, numVars, loadVars>>

NextMerge == MergeTransfers

SpecMerge == InitMerge /\ [][NextMerge]_vars

TransferList == IF transfers = Undefined THEN <<>> ELSE transfers[1]

\* C2 as stated: for every document and transfer list the total after the merge
\* is the total before plus the deposits minus the withdraws (each move cancels).
C2_MoveNeutralEveryDocument ==
    pc = "done" =>
        calculateTotalBalance(portfolioData)
            = calculateTotalBalance(rawData)
              + SumAmounts(TransferList, "deposit") - SumAmounts(TransferList, "withdraw")

HasMove(list) == \E i \in 1..Len(list) : list[i].type = "move"

CategoryIds(doc) == {doc.portfolio[i].id : i \in 1..Len(doc.portfolio)}

\* C2 (amended): for every document that has a category list and every transfer
\* list, the total after mergeTransfers equals the total before plus the sum of
\* the deposit amounts minus the sum of the withdraw amounts, whatever moves the
\* list contains.
C2_MoveNeutral ==
    (pc = "done" /\ ~NoPortfolio(rawData)) =>
        calculateTotalBalance(portfolioData)
            = calculateTotalBalance(rawData)
              + SumAmounts(TransferList, "deposit") - SumAmounts(TransferList, "withdraw")

\* a merged list that holds a deposit and a move into a category the document
\* did not have
C2_Witness ==
    /\ pc = "done"
    /\ ~NoPortfolio(rawData)
    /\ SumAmounts(TransferList, "deposit") > 0
    /\ \E i \in 1..Len(TransferList) :
          /\ TransferList[i].type = "move"
          /\ TransferList[i].to_category \notin CategoryIds(rawData)
          /\ TransferList[i].from_category \in CategoryIds(rawData)

\* C7: merging an empty or absent transfer list leaves the document as it was:
\* every value unchanged, no category or asset added, no isVirtual, originalVal,
\* adjustment or adjustmentHistory set.
C7_EmptyMergeIsIdentity ==
    (pc = "done" /\ TransferList = <<>>) => portfolioData = rawData

C7_Witness ==
    /\ pc = "done"
    /\ transfers = Some(<<>>)
    /\ ~NoPortfolio(rawData)
    /\ calculateTotalBalance(rawData) > 0

\* the keys of the entries of one category
ItemKeys(cat) == {getAssetKey(cat.id, cat.items[j].source, cat.items[j].name) : j \in 1..Len(cat.items)}

\* C16: transfers do not recalculate asset balances: every asset of the stored
\* document keeps its stored val after the transfers are applied, the summed
\* balance is the stored one, and no entry is added under the key of an asset
\* the category already holds.
C16_BalancesNotRecalculated ==
    (pc = "done" /\ ~NoPortfolio(rawData)) =>
        /\ \A i \in 1..Len(rawData.portfolio) :
              /\ \A j \in 1..Len(rawData.portfolio[i].items) :
                    portfolioData.portfolio[i].items[j].val = rawData.portfolio[i].items[j].val
              /\ \A j \in (Len(rawData.portfolio[i].items) + 1)..Len(portfolioData.portfolio[i].items) :
                    getAssetKey(portfolioData.portfolio[i].id,
                                portfolioData.portfolio[i].items[j].source,
                                portfolioData.portfolio[i].items[j].name)
                        \notin ItemKeys(rawData.portfolio[i])
        /\ calculateTotalBalance(portfolioData) = calculateTotalBalance(rawData)

\* the transfer names this category, source and name (strict equality, as the
\* merger matches)
Names(c, s, n, cat, src, name) == c = cat /\ s = src /\ n = name

RECURSIVE SignedAmounts(_, _, _, _)
\* the signed amounts the list addresses to one asset, in list order: +amount
\* for a deposit, -amount for a withdraw, -amount then +amount for the from and
\* the to side of a move
SignedAmounts(list, cat, src, name) ==
    IF list = <<>> THEN <<>>
    ELSE LET t == Head(list)
             here == IF t.type = "deposit"
                     THEN (IF Names(t.category, t.source, t.name, cat, src, name)
                           THEN <<t.amount>> ELSE <<>>)
                     ELSE IF t.type = "withdraw"
                     THEN (IF Names(t.category, t.source, t.name, cat, src, name)
                           THEN <<0 - t.amount>> ELSE <<>>)
                     ELSE (IF Names(t.from_category, t.from_source, t.from_name, cat, src, name)
                           THEN <<0 - t.amount>> ELSE <<>>)
                          \o (IF Names(t.to_category, t.to_source, t.to_name, cat, src, name)
                              THEN <<t.amount>> ELSE <<>>)
         IN here \o SignedAmounts(Tail(list), cat, src, name)

\* the positions <<i, j>> of the entries of a document
Positions(doc) ==
    UNION {{<<i, j>> : j \in 1..Len(doc.portfolio[i].items)} : i \in 1..Len(doc.portfolio)}

ItemAt(doc, p) == doc.portfolio[p[1]].items[p[2]]

\* the entry at p is in the raw document too
InRaw(p) == p[1] <= Len(rawData.portfolio) /\ p[2] <= Len(rawData.portfolio[p[1]].items)

\* the amounts the transfer list addresses to the entry at p of the merged
\* document
AddressedTo(p) ==
    SignedAmounts(TransferList, portfolioData.portfolio[p[1]].id,
                  ItemAt(portfolioData, p).source, ItemAt(portfolioData, p).name)

\* the entry at p is the one the merger finds for its category, source and name
FoundAt(p) ==
    /\ p[1] = FindCategory(portfolioData.portfolio, portfolioData.portfolio[p[1]].id)
    /\ p[2] = FindAsset(portfolioData.portfolio[p[1]].items,
                        ItemAt(portfolioData, p).name, ItemAt(portfolioData, p).source)

Touched(p) == FoundAt(p) /\ AddressedTo(p) # <<>>

Merged == pc = "done" /\ ~NoPortfolio(rawData) /\ TransferList # <<>>

\* C22: within one mergeTransfers call the transfers are applied in list order:
\* a touched asset's adjustmentHistory is the list's signed amounts for it in
\* list order, and its originalVal is its value before the call (0 for a
\* synthesized asset), recorded at the first touch and not overwritten.
C22_FirstTouchAndOrder ==
    Merged =>
        \A p \in Positions(portfolioData) :
            Touched(p) =>
                /\ ItemAt(portfolioData, p).adjustmentHistory = Some(AddressedTo(p))
                /\ ItemAt(portfolioData, p).originalVal
                       = Some(IF InRaw(p) THEN ItemAt(rawData, p).val ELSE 0)

\* an asset worth 1 got a deposit of 2 and then a withdraw of 1
C22_Witness ==
    /\ Merged
    /\ \E p \in Positions(portfolioData) :
          /\ Touched(p)
          /\ InRaw(p)
          /\ ItemAt(rawData, p).val = 1
          /\ ItemAt(portfolioData, p).adjustmentHistory = Some(<<2, -1>>)
          /\ ItemAt(portfolioData, p).originalVal = Some(1)

\* C27: after mergeTransfers every touched asset has val = originalVal +
\* adjustment, adjustment = the sum of its adjustmentHistory and isVirtual true;
\* every asset no transfer refers to keeps its val and has none of these fields.
C27_VirtualStateConsistent ==
    Merged =>
        \A p \in Positions(portfolioData) :
            LET it == ItemAt(portfolioData, p)
            IN /\ Touched(p) =>
                    /\ it.originalVal # Undefined /\ it.adjustment # Undefined
                    /\ it.adjustmentHistory # Undefined
                    /\ it.val = it.originalVal[1] + it.adjustment[1]
                    /\ it.adjustment[1] = SumSeq(it.adjustmentHistory[1])
                    /\ it.isVirtual = Some(TRUE)
               /\ AddressedTo(p) = <<>> =>
                    /\ InRaw(p)
                    /\ it = ItemAt(rawData, p)
                    /\ it.originalVal = Undefined /\ it.adjustment = Undefined
                    /\ it.adjustmentHistory = Undefined /\ it.isVirtual = Undefined

\* one asset got two transfers, another asset of the document none
C27_Witness ==
    /\ Merged
    /\ \E p, q \in Positions(portfolioData) :
          /\ Touched(p)
          /\ Len(ItemAt(portfolioData, p).adjustmentHistory[1]) = 2
          /\ ItemAt(portfolioData, p).adjustment[1] # 0
          /\ AddressedTo(q) = <<>>
          /\ ItemAt(rawData, q).val = 1

\* the keys of the entries of a document, one per position
KeyAt(doc, p) == getAssetKey(doc.portfolio[p[1]].id, ItemAt(doc, p).source, ItemAt(doc, p).name)

UniqueKeys(doc) ==
    \A p, q \in Positions(doc) : KeyAt(doc, p) = KeyAt(doc, q) => p = q

\* C30: the merger resolves a transfer to the asset its key identifies: after
\* merging a transfer list into a document whose assets have distinct keys, no
\* two assets share one key and every merged asset's adjustment is the net of
\* getAdjustmentsPerAsset for its key.
C30_OneAssetPerKey ==
    (Merged /\ UniqueKeys(rawData)) =>
        /\ UniqueKeys(portfolioData)
        /\ \A p \in Positions(portfolioData) :
              Touched(p) =>
                  ItemAt(portfolioData, p).adjustment[1]
                      = getAdjustmentsPerAsset(transfers, rawData)[KeyAt(portfolioData, p)].net

-----------------------------------------------------------------------------
(* Specification SpecAdjust: getAdjustmentsPerAsset, one transfer per step *)

AdjMaxTransfers == 2

AdjTransferKinds == TransfersOver({AssetCN, AssetCUpperN, AssetDN}, {1, 2})

InitAdjust ==
    /\ pc = "input"
    /\ portfolioData \in {NullDoc, MalformedDoc, OkDoc(<<>>)}
    /\ rawData = portfolioData
    /\ prevData = NullDoc
    /\ transfers \in {Undefined} \cup {Some(l) : l \in SeqsUpTo(AdjTransferKinds, AdjMaxTransfers)}
    /\ NoOutputs
    /\ NoNumbers
    /\ NoLoad

\* entry of the function: the guard of line 393, else the loop starts
AdjustEnter ==
    /\ pc = "input"
    /\ adjustments' = EmptyMap
    /\ IF AdjustmentsSkipped(transfers, portfolioData)
       THEN pc' = "done" /\ args' = args
       ELSE pc' = "loop" /\ args' = [i |-> 1]
    /\ UNCHANGED <<docVars, snapshot, previousSnapshot, comparison, performance, result, loadVars>>

\* one iteration of transfers.forEach
AdjustStep ==
    /\ pc = "loop"
    /\ args.i <= Len(transfers[1])
    /\ adjustments' = AdjustOne(adjustments, transfers[1][args.i])
    /\ args' = [i |-> args.i + 1]
    /\ UNCHANGED <<pc, docVars, snapshot, previousSnapshot, comparison, performance, result, loadVars>>

AdjustReturn ==
    /\ pc = "loop"
    /\ args.i > Len(transfers[1])
    /\ pc' = "done"
    /\ UNCHANGED <<docVars, outVars, numVars, loadVars>>

NextAdjust == AdjustEnter \/ AdjustStep \/ AdjustReturn

SpecAdjust == InitAdjust /\ [][NextAdjust]_vars

\* what one transfer deposits to / withdraws from the asset key k
DepositedTo(t, k) ==
    IF t.type = "deposit" /\ getAssetKey(t.category, t.source, t.name) = k THEN t.amount
    ELSE IF t.type = "move" /\ getAssetKey(t.to_category, t.to_source, t.to_name) = k THEN t.amount
    ELSE 0

WithdrawnFrom(t, k) ==
    IF t.type = "withdraw" /\ getAssetKey(t.category, t.source, t.name) = k THEN t.amount
    ELSE IF t.type = "move" /\ getAssetKey(t.from_category, t.from_source, t.from_name) = k THEN t.amount
    ELSE 0

KeysOf(t) ==
    IF t.type = "move"
    THEN {getAssetKey(t.from_category, t.from_source, t.from_name),
          getAssetKey(t.to_category, t.to_source, t.to_name)}
    ELSE {getAssetKey(t.category, t.source, t.name)}

\* the transfers processed so far
Processed ==
    IF pc = "loop" THEN SubSeq(transfers[1], 1, args.i - 1)
    ELSE IF pc = "done" /\ ~AdjustmentsSkipped(transfers, portfolioData) THEN transfers[1]
    ELSE <<>>

\* C10: after each processed transfer every entry of the map has
\* net = deposits - withdraws, its deposits are the amounts deposited or moved
\* to its key, its withdraws the amounts withdrawn or moved from its key, and
\* the map holds exactly the keys the processed transfers name.
C10_NetIsDepositsMinusWithdraws ==
    /\ DOMAIN adjustments = UNION {KeysOf(Processed[j]) : j \in 1..Len(Processed)}
    /\ \A k \in DOMAIN adjustments :
          /\ adjustments[k].net = adjustments[k].deposits - adjustments[k].withdraws
          /\ adjustments[k].deposits
                = SumSeq([j \in 1..Len(Processed) |-> DepositedTo(Processed[j], k)])
          /\ adjustments[k].withdraws
                = SumSeq([j \in 1..Len(Processed) |-> WithdrawnFrom(Processed[j], k)])

\* a finished aggregation whose list holds a deposit and a move from a key to
\* the same key under another spelling, leaving that key's net at the deposit
C10_Witness ==
    /\ pc = "done"
    /\ \E j \in 1..Len(Processed) :
          /\ Processed[j].type = "move"
          /\ Processed[j].from_name # Processed[j].to_name
          /\ Cardinality(KeysOf(Processed[j])) = 1
          /\ \E k \in KeysOf(Processed[j]) :
                /\ adjustments[k].deposits > adjustments[k].withdraws
                /\ adjustments[k].withdraws > 0

-----------------------------------------------------------------------------
(* Specification SpecCompare: compareSnapshots on the snapshots of two bounded
   documents and the adjustment map of a bounded transfer list *)

CmpMaxVal == 2
CmpMaxTransfers == 1

CmpShapes ==
    { <<>>,
      << <<CatC, <<NameN>>>> >>,
      << <<CatD, <<NameN>>>> >>,
      << <<CatC, <<NameN>>>>, <<CatD, <<NameN>>>> >> }

CmpDocs == DocsOfShapes(CmpShapes, CmpMaxVal)

CmpTransferKinds ==
    {Deposit(CatC, SrcS, NameN, 1), Deposit(CatC, SrcS, NameN, 2),
     Withdraw(CatC, SrcS, NameN, 1), Deposit(CatD, SrcS, NameN, 1),
     Move(CatC, SrcS, NameN, CatD, SrcS, NameN, 1)}

InitCompare ==
    /\ pc = "input"
    /\ portfolioData \in CmpDocs
    /\ rawData = portfolioData
    /\ prevData \in CmpDocs
    /\ transfers \in {Some(l) : l \in SeqsUpTo(CmpTransferKinds, CmpMaxTransfers)}
    /\ NoOutputs
    /\ NoNumbers
    /\ NoLoad

\* the inputs of the comparison are prepared: both snapshots and the adjustments
PrepareComparison ==
    /\ pc = "input"
    /\ snapshot' = buildSnapshot(portfolioData)
    /\ previousSnapshot' = buildSnapshot(prevData)
    /\ adjustments' = getAdjustmentsPerAsset(transfers, portfolioData)
    /\ pc' = "prepared"
    /\ UNCHANGED <<docVars, comparison, performance, numVars, loadVars>>

CompareSnapshots ==
    /\ pc = "prepared"
    /\ comparison' = compareSnapshots(snapshot, previousSnapshot, adjustments)
    /\ pc' = "done"
    /\ UNCHANGED <<docVars, snapshot, previousSnapshot, adjustments, performance, numVars, loadVars>>

NextCompare == PrepareComparison \/ CompareSnapshots

SpecCompare == InitCompare /\ [][NextCompare]_vars

ValueIn(snap, k) == IF k \in DOMAIN snap.assetMap THEN snap.assetMap[k].val ELSE 0
NetOf(adj, k) == IF k \in DOMAIN adj THEN adj[k].net ELSE 0

\* C5: for every asset key of either snapshot adjustedStart = previousVal + net
\* adjustment, delta = currentVal - adjustedStart, and percent = delta /
\* adjustedStart * 100 when adjustedStart > 0, else 0 (a missing side counts as
\* 0, a key without adjustment as net 0).
C5_AdjustedStartDelta ==
    pc = "done" =>
        /\ DOMAIN comparison.assets = (DOMAIN snapshot.assetMap) \cup (DOMAIN previousSnapshot.assetMap)
        /\ \A k \in DOMAIN comparison.assets :
              LET r == comparison.assets[k]
                  cur == ValueIn(snapshot, k)
                  prev == ValueIn(previousSnapshot, k)
              IN /\ r.currentVal = cur
                 /\ r.previousVal = prev
                 /\ r.adjustedStart = prev + NetOf(adjustments, k)
                 /\ r.delta = cur - r.adjustedStart
                 /\ r.adjustedStart > 0 => r.percent.n * r.adjustedStart = r.delta * 100 * r.percent.d
                 /\ r.adjustedStart <= 0 => r.percent.n = 0
                 /\ r.percent.d > 0

\* both scenarios of the claim: an asset absent before, now worth v and funded
\* by a deposit of v (adjustedStart = v, percent = 0), and an asset that was
\* worth v > 0, is 0 now and has no transfer (delta = -v, percent = -100)
C5_Witness ==
    /\ pc = "done"
    /\ \E k \in DOMAIN comparison.assets :
          /\ k \notin DOMAIN previousSnapshot.assetMap
          /\ NetOf(adjustments, k) = 2
          /\ comparison.assets[k].currentVal = 2
          /\ comparison.assets[k].adjustedStart = 2
          /\ comparison.assets[k].percent = FInt(0)
    /\ \E k \in DOMAIN comparison.assets :
          /\ k \notin DOMAIN adjustments
          /\ comparison.assets[k].previousVal > 0
          /\ comparison.assets[k].currentVal = 0
          /\ comparison.assets[k].delta = -comparison.assets[k].previousVal
          /\ comparison.assets[k].percent = FInt(-100)

\* C6: every asset key of either snapshot gets exactly one status: new if the
\* current value > 0 and the previous snapshot has no entry for the key; else
\* ghost if the current value is 0 and the previous value > 0; else hidden if
\* both are 0; else normal.
C6_StatusPrecedence ==
    pc = "done" =>
        \A k \in (DOMAIN snapshot.assetMap) \cup (DOMAIN previousSnapshot.assetMap) :
            LET cur == ValueIn(snapshot, k)
                prev == ValueIn(previousSnapshot, k)
                st == comparison.assets[k].status
            IN /\ st \in {"new", "ghost", "hidden", "normal"}
               /\ st = "new" <=> (cur > 0 /\ k \notin DOMAIN previousSnapshot.assetMap)
               /\ st = "ghost" <=> (cur = 0 /\ prev > 0)
               /\ st = "hidden" <=>
                     (cur = 0 /\ prev = 0 /\ ~(cur > 0 /\ k \notin DOMAIN previousSnapshot.assetMap))
               /\ st = "normal" <=>
                     (cur > 0 /\ k \in DOMAIN previousSnapshot.assetMap)

\* a comparison with a ghost that left the document and a key whose entry was
\* worth 0 before and has a value now, which is normal and not new
C6_Witness ==
    /\ pc = "done"
    /\ \E k \in DOMAIN comparison.assets :
          /\ comparison.assets[k].status = "ghost"
          /\ k \notin DOMAIN snapshot.assetMap
    /\ \E k \in DOMAIN comparison.assets :
          /\ comparison.assets[k].status = "normal"
          /\ comparison.assets[k].previousVal = 0
          /\ comparison.assets[k].currentVal > 0

-----------------------------------------------------------------------------
(* Specification SpecPerf: calculatePerformance on bounded balances and
   transfer lists, the scenario of the documentation among them *)

PerfMaxBalance == 3
PerfMaxTransfers == 2

PerfStartBalances == (-1..PerfMaxBalance) \cup {100000}
PerfEndBalances == (0..PerfMaxBalance) \cup {120000}

PerfTransferKinds ==
    {Deposit(CatC, SrcS, NameN, 1), Deposit(CatC, SrcS, NameN, 20000),
     Withdraw(CatC, SrcS, NameN, 1), Withdraw(CatC, SrcS, NameN, 5000),
     Move(CatC, SrcS, NameN, CatD, SrcS, NameN, 1)}

InitPerf ==
    /\ pc = "input"
    /\ portfolioData = NullDoc
    /\ rawData = NullDoc
    /\ prevData = NullDoc
    /\ transfers \in {Undefined} \cup {Some(l) : l \in SeqsUpTo(PerfTransferKinds, PerfMaxTransfers)}
    /\ NoOutputs
    /\ args \in [startBalance : PerfStartBalances, endBalance : PerfEndBalances,
                 isFirstMonth : BOOLEAN]
    /\ result = None
    /\ NoLoad

CalculatePerformance ==
    /\ pc = "input"
    /\ performance' = calculatePerformance(args.startBalance, args.endBalance,
                                           transfers, args.isFirstMonth)
    /\ pc' = "done"
    /\ UNCHANGED <<docVars, snapshot, previousSnapshot, adjustments, comparison, numVars, loadVars>>

NextPerf == CalculatePerformance

SpecPerf == InitPerf /\ [][NextPerf]_vars

\* C4: for a non-first month calculatePerformance returns netFlow = deposits -
\* withdraws (moves ignored), profit = endBalance - (startBalance + netFlow),
\* and with investedCapital = startBalance + deposits: yieldPercent = profit /
\* investedCapital * 100 when investedCapital > 0.01, 100 when investedCapital
\* <= 0.01 and profit > 0, and 0 otherwise.
C4_NormalMonthFormulas ==
    (pc = "done" /\ ~args.isFirstMonth) =>
        LET deposits == SumAmounts(TransferList, "deposit")
            withdraws == SumAmounts(TransferList, "withdraw")
            investedCapital == args.startBalance + deposits
            p == performance
        IN /\ p.startBalance = args.startBalance
           /\ p.endBalance = args.endBalance
           /\ p.totalDeposits = deposits
           /\ p.totalWithdraws = withdraws
           /\ p.netFlow = deposits - withdraws
           /\ p.profit = args.endBalance - (args.startBalance + p.netFlow)
           /\ p.yieldPercent.d > 0
           /\ investedCapital > Cent =>
                  FDiv(p.yieldPercent, FInt(100)) = Frac(p.profit, investedCapital)
           /\ (investedCapital <= Cent /\ p.profit > 0) => p.yieldPercent = FInt(100)
           /\ (investedCapital <= Cent /\ p.profit <= 0) => p.yieldPercent = FInt(0)

\* the scenario start = 1000.00, deposits = 200.00, withdraws = 50.00, end =
\* 1200.00: netFlow 150.00, profit 50.00, invested capital 1200.00, yield 25/6
C4_Witness ==
    /\ pc = "done"
    /\ ~args.isFirstMonth
    /\ args.startBalance = 100000
    /\ args.endBalance = 120000
    /\ performance.totalDeposits = 20000
    /\ performance.totalWithdraws = 5000
    /\ performance.netFlow = 15000
    /\ performance.profit = 5000
    /\ performance.yieldPercent = Frac(25, 6)

-----------------------------------------------------------------------------
(* Specification SpecYTD: calculateYTD on bounded lists of monthly yields *)

YtdMaxLen == 3

YtdYields == {Frac(-3, 2), FInt(-1), Frac(-1, 10), FInt(0), Frac(1, 10), Frac(1, 2)}

InitYTD ==
    /\ pc = "input"
    /\ portfolioData = NullDoc
    /\ rawData = NullDoc
    /\ prevData = NullDoc
    /\ transfers = Undefined
    /\ NoOutputs
    /\ args \in {[yields |-> y] : y \in SeqsUpTo(YtdYields, YtdMaxLen)}
    /\ result = None
    /\ NoLoad

CalculateYTD ==
    /\ pc = "input"
    /\ result' = calculateYTD(args.yields)
    /\ pc' = "done"
    /\ UNCHANGED <<docVars, outVars, args, loadVars>>

NextYTD == CalculateYTD

SpecYTD == InitYTD /\ [][NextYTD]_vars

\* the product of (1 + y[i]) over the positions in I
RECURSIVE ProductOver(_, _)
ProductOver(y, I) ==
    IF I = {} THEN FInt(1)
    ELSE LET i == CHOOSE j \in I : TRUE
         IN FMul(FAdd(FInt(1), y[i]), ProductOver(y, I \ {i}))

Orderings(n) == {p \in [1..n -> 1..n] : \A i, j \in 1..n : p[i] = p[j] => i = j}

\* the entries of y that are not 0, in order
NonZero(y) == SelectSeq(y, LAMBDA r : r # FInt(0))

-----------------------------------------------------------------------------
(* Specification SpecProjected: calculateProjectedAnnual on bounded returns
   and month counts *)

ProjMaxMonths == 12

ProjYtds == {Frac(-3, 2), FInt(-1), Frac(-1, 2), FInt(0), Frac(1, 2), FInt(1), FInt(2)}

InitProjected ==
    /\ pc = "input"
    /\ portfolioData = NullDoc
    /\ rawData = NullDoc
    /\ prevData = NullDoc
    /\ transfers = Undefined
    /\ NoOutputs
    /\ args \in [ytd : ProjYtds, monthsPassed : -1..ProjMaxMonths]
    /\ result = None
    /\ NoLoad

CalculateProjectedAnnual ==
    /\ pc = "input"
    /\ result' = calculateProjectedAnnual(args.ytd, args.monthsPassed)
    /\ pc' = "done"
    /\ UNCHANGED <<docVars, outVars, args, loadVars>>

NextProjected == CalculateProjectedAnnual

SpecProjected == InitProjected /\ [][NextProjected]_vars

-----------------------------------------------------------------------------
(* Specification SpecLoad: the selector's months are loaded one after the
   other; every load runs loadMonth from its fetches to the rendering *)

LoadMaxVal == 1

CandidateMonths == <<"2026-01", "2026-02", "2026-03">>
MonthIdSet == {CandidateMonths[i] : i \in DOMAIN CandidateMonths}

\* the candidates whose file was found when the selector was filled, in order
MonthLists ==
    {SelectSeq([i \in DOMAIN CandidateMonths |-> [id |-> CandidateMonths[i]]],
               LAMBDA mo : mo.id \in S) : S \in SUBSET MonthIdSet}

LoadDocs == {NullDoc, MalformedDoc} \cup DocsOfShapes({<< <<CatC, <<NameN>>>> >>}, LoadMaxVal)

LoadTransferLists ==
    {<<>>, <<Deposit(CatC, SrcS, NameN, 1)>>, <<Withdraw(CatC, SrcS, NameN, 1)>>}

InitLoad ==
    /\ pc = "idle"
    /\ portfolioData = NullDoc
    /\ rawData = NullDoc
    /\ prevData = NullDoc
    /\ transfers = Undefined
    /\ NoOutputs
    /\ NoNumbers
    /\ availableMonths \in MonthLists
    /\ files \in [portfolio : [MonthIdSet -> LoadDocs],
                  transfers : [MonthIdSet -> LoadTransferLists]]
    /\ currentMonthId = NoMonth
    /\ load = None
    /\ ui = "blank"
    /\ forecast = None
    /\ calls = <<>>
    /\ dataSource = None

\* lines 1235-1253: loadMonth up to the joint await of the four fetches
LoadStart(monthId) ==
    /\ pc = "idle"
    /\ \E i \in 1..Len(availableMonths) : availableMonths[i].id = monthId
    /\ ui' = "loading"
    /\ currentMonthId' = monthId
    /\ load' = [monthId |-> monthId,
                prevMonthId |-> getPreviousMonthId(monthId),
                isFirstMonth |-> (getPreviousMonthId(monthId) = NoMonth)]
    /\ pc' = "fetching"
    /\ UNCHANGED <<docVars, outVars, numVars, availableMonths, files, forecast, calls, dataSource>>

\* lines 1260-1270 and 1323-1326: no current document, or one without a
\* portfolio list, ends the load with the error view
LoadFailed ==
    /\ pc = "fetching"
    /\ NoPortfolio(fetchPortfolioData(load.monthId))
    /\ ui' = "error"
    /\ load' = None
    /\ pc' = "idle"
    /\ UNCHANGED <<docVars, outVars, numVars, availableMonths, files, currentMonthId, forecast, calls, dataSource>>

\* lines 1256-1303: from the fetched data to the performance record, up to the
\* await of the forecast
LoadCompute ==
    /\ pc = "fetching"
    /\ ~NoPortfolio(fetchPortfolioData(load.monthId))
    /\ LET currentData == fetchPortfolioData(load.monthId)
           fetchedPrev == IF load.prevMonthId # NoMonth
                          THEN fetchPortfolioData(load.prevMonthId) ELSE NullDoc
           flat == FlatTransfers(fetchTransfersForMonth(load.monthId))
           prevFlat == IF load.prevMonthId # NoMonth
                       THEN FlatTransfers(fetchTransfersForMonth(load.prevMonthId)) ELSE <<>>
           merged == mergeTransfers(currentData, Some(flat))
           mergedPrev == IF fetchedPrev # NullDoc
                         THEN mergeTransfers(fetchedPrev, Some(prevFlat)) ELSE NullDoc
           cur == buildSnapshot(merged)
           prev == IF fetchedPrev # NullDoc THEN buildSnapshot(mergedPrev) ELSE None
           adj == getAdjustmentsPerAsset(Some(flat), merged)
           endBalance == calculateTotalBalance(merged)
           startBalance == IF fetchedPrev # NullDoc THEN calculateTotalBalance(mergedPrev) ELSE 0
       IN /\ rawData' = currentData
          /\ portfolioData' = merged
          /\ transfers' = Some(flat)
          /\ prevData' = mergedPrev
          /\ snapshot' = cur
          /\ previousSnapshot' = prev
          /\ adjustments' = adj
          /\ comparison' = IF prev # None THEN compareSnapshots(cur, prev, adj) ELSE None
          /\ performance' = calculatePerformance(startBalance, endBalance, Some(flat),
                                                 load.isFirstMonth)
    /\ pc' = "forecasting"
    /\ UNCHANGED <<numVars, loadVars>>

\* lines 1306-1321: the forecast has been awaited (it works on its own copies)
\* and the month is rendered
LoadRender ==
    /\ pc = "forecasting"
    /\ ui' = "rendered"
    /\ load' = None
    /\ pc' = "idle"
    /\ UNCHANGED <<docVars, outVars, numVars, availableMonths, files, currentMonthId, forecast, calls, dataSource>>

NextLoad ==
    \/ \E monthId \in MonthIdSet : LoadStart(monthId)
    \/ LoadFailed
    \/ LoadCompute
    \/ LoadRender

SpecLoad == InitLoad /\ [][NextLoad]_vars

\* C3: whenever the loaded month has no previous month, the performance result
\* has profit = 0 and yieldPercent = 0 for every end balance and transfer list,
\* startBalance 0, totalDeposits = netFlow = endBalance and totalWithdraws = 0.
C3_ZeroKilometer ==
    (pc = "forecasting" /\ availableMonths[1].id = load.monthId) =>
        /\ performance.profit = 0
        /\ performance.yieldPercent = FInt(0)
        /\ performance.startBalance = 0
        /\ performance.endBalance = calculateTotalBalance(portfolioData)
        /\ performance.totalDeposits = performance.endBalance
        /\ performance.netFlow = performance.endBalance
        /\ performance.totalWithdraws = 0

\* the first month of the list is loaded with a document worth something and a
\* withdraw among its transfers, which the result does not report
C3_Witness ==
    /\ pc = "forecasting"
    /\ availableMonths[1].id = load.monthId
    /\ Len(availableMonths) > 1
    /\ SumAmounts(TransferList, "withdraw") > 0
    /\ calculateTotalBalance(rawData) > 0
    /\ performance.totalWithdraws = 0
    /\ performance.profit = 0

-----------------------------------------------------------------------------
(* Specification SpecYield: calculatePerformance and calculateSimpleYield on
   the same balances and transfer list *)

CalculateSimpleYield ==
    /\ pc = "done"
    /\ result' = calculateSimpleYield(args.startBalance, args.endBalance, transfers)
    /\ pc' = "compared"
    /\ UNCHANGED <<docVars, outVars, args, loadVars>>

NextYield == CalculatePerformance \/ CalculateSimpleYield

SpecYield == InitPerf /\ [][NextYield]_vars

\* C14: for every start balance, end balance and transfer list,
\* calculateSimpleYield * 100 equals the yieldPercent of calculatePerformance
\* for a non-first month; with capital <= 0.01 a positive profit gives 1.0 and
\* 100, any other profit 0 and 0.
C14_SameYieldFormula ==
    (pc = "compared" /\ ~args.isFirstMonth) =>
        /\ FMul(result, FInt(100)) = performance.yieldPercent
        /\ (args.startBalance + performance.totalDeposits <= Cent /\ performance.profit > 0)
               => (result = FInt(1) /\ performance.yieldPercent = FInt(100))
        /\ (args.startBalance + performance.totalDeposits <= Cent /\ performance.profit <= 0)
               => (result = FInt(0) /\ performance.yieldPercent = FInt(0))

\* capital of exactly 0.01 with a positive profit: both take the sentinel
C14_Witness ==
    /\ pc = "compared"
    /\ ~args.isFirstMonth
    /\ args.startBalance + performance.totalDeposits = Cent
    /\ performance.profit > 1
    /\ result = FInt(1)
    /\ performance.yieldPercent = FInt(100)

-----------------------------------------------------------------------------
(* Specification SpecYear: calculateYearStats for a target month whose
   document exists; the promises of the months resolve in any order *)

InitYear ==
    /\ pc = "idle"
    /\ portfolioData = NullDoc
    /\ rawData = NullDoc
    /\ prevData = NullDoc
    /\ transfers = Undefined
    /\ NoOutputs
    /\ availableMonths = <<>>
    /\ files \in [portfolio : [MonthIdSet -> LoadDocs],
                  transfers : [MonthIdSet -> LoadTransferLists]]
    /\ args \in {[currentMonthId |-> mo] :
                    mo \in {x \in MonthIdSet : ~NoPortfolio(files.portfolio[x])}}
    /\ result = None
    /\ currentMonthId = args.currentMonthId
    /\ load = None
    /\ ui = "blank"
    /\ forecast = None
    /\ calls = <<>>
    /\ dataSource = None

\* lines 610-627: the promises of the months are created
YearStart ==
    /\ pc = "idle"
    /\ forecast' = [targetMonthId |-> args.currentMonthId,
                    ids |-> YearSequenceIds(args.currentMonthId),
                    pending |-> DOMAIN YearSequenceIds(args.currentMonthId),
                    results |-> <<>>,
                    sequence |-> <<>>,
                    pos |-> 0,
                    chain |-> ChainStart]
    /\ pc' = "year-fetching"
    /\ UNCHANGED <<docVars, outVars, numVars, availableMonths, files, currentMonthId,
                   load, ui, calls, dataSource>>

\* lines 619-626: the document and the transfers of one month have arrived
MonthFetched(i) ==
    /\ pc = "year-fetching"
    /\ i \in forecast.pending
    /\ forecast' = [forecast EXCEPT
                       !.pending = @ \ {i},
                       !.results = [j \in (DOMAIN @) \cup {i} |->
                                       IF j = i THEN YearItem(forecast.ids[i]) ELSE @[j]]]
    /\ UNCHANGED <<pc, docVars, outVars, numVars, availableMonths, files, currentMonthId,
                   load, ui, calls, dataSource>>

\* lines 629-632 and 694-703: all promises resolved, the results are sorted
SequenceReady ==
    /\ pc = "year-fetching"
    /\ forecast.pending = {}
    /\ forecast' = [forecast EXCEPT
                       !.sequence = SortById([j \in DOMAIN forecast.ids |-> forecast.results[j]]),
                       !.pos = 1]
    /\ pc' = "year-chain"
    /\ UNCHANGED <<docVars, outVars, numVars, availableMonths, files, currentMonthId,
                   load, ui, calls, dataSource>>

\* lines 706-763: one iteration of the loop
ChainStep ==
    /\ pc = "year-chain"
    /\ forecast.pos <= Len(forecast.sequence)
    /\ forecast' = [forecast EXCEPT
                       !.chain = YearStep(@, forecast.sequence[forecast.pos],
                                          forecast.pos - 1, forecast.targetMonthId),
                       !.pos = @ + 1]
    /\ UNCHANGED <<pc, docVars, outVars, numVars, availableMonths, files, currentMonthId,
                   load, ui, calls, dataSource>>

\* lines 766-787
YearReturn ==
    /\ pc = "year-chain"
    /\ forecast.pos > Len(forecast.sequence)
    /\ result' = YearStats(forecast.chain, forecast.sequence)
    /\ pc' = "done"
    /\ UNCHANGED <<docVars, outVars, args, loadVars>>

NextYear ==
    \/ YearStart
    \/ \E i \in DOMAIN CandidateMonths : MonthFetched(i)
    \/ SequenceReady
    \/ ChainStep
    \/ YearReturn

SpecYear == InitYear /\ [][NextYear]_vars

\* the balance of a month's document after its transfers are merged (0 when
\* the document is absent) and the month's deposits minus withdraws
EndBalanceOf(id) ==
    calculateTotalBalance(mergeTransfers(files.portfolio[id], Some(files.transfers[id])))
NetFlowOf(id) ==
    SumAmounts(files.transfers[id], "deposit") - SumAmounts(files.transfers[id], "withdraw")

\* the number of the target month in its year
TargetIndex == CHOOSE i \in DOMAIN CandidateMonths : CandidateMonths[i] = args.currentMonthId

\* C11: in calculateYearStats the first month of the sequence contributes a
\* yield of exactly 0 and a month profit of 0, and its whole post-merge end
\* balance is added to the accumulated contributed capital, whatever its
\* transfers are.
C11_FirstMonthOfYear ==
    (pc \in {"year-chain", "done"} /\ forecast.pos >= 2) =>
        /\ forecast.chain.yields[1] = FInt(0)
        /\ forecast.pos = 2 =>
               forecast.chain.accumulatedNetFlow = EndBalanceOf(CandidateMonths[1])
        /\ (args.currentMonthId = CandidateMonths[1]) =>
               /\ forecast.chain.currentMonthYield = FInt(0)
               /\ forecast.chain.currentMonthProfit = 0
               /\ pc = "done" => (result.monthYield = FInt(0) /\ result.monthProfit = 0)

\* the first month has a document worth something and a deposit, and a later
\* month is the target
C11_Witness ==
    /\ pc = "year-chain"
    /\ forecast.pos = 2
    /\ TargetIndex > 1
    /\ SumAmounts(files.transfers[CandidateMonths[1]], "deposit") > 0
    /\ calculateTotalBalance(files.portfolio[CandidateMonths[1]]) > 0
    /\ forecast.chain.accumulatedNetFlow = EndBalanceOf(CandidateMonths[1])
    /\ forecast.chain.accumulatedNetFlow > 1

\* C12: for a target month with index n the yield chain has exactly n entries,
\* one per calendar month 01..n in ascending order whatever the order in
\* which the fetches complete; a month whose document is absent contributes
\* the entry 0 and leaves the running start balance and the accumulated
\* contributed capital unchanged.
C12_ChainIndexedByMonth ==
    /\ [](pc \in {"year-chain", "done"} =>
            /\ Len(forecast.sequence) = TargetIndex
            /\ \A i \in 1..TargetIndex : forecast.sequence[i].id = CandidateMonths[i]
            /\ Len(forecast.chain.yields) = forecast.pos - 1
            /\ \A i \in 1..(forecast.pos - 1) :
                   files.portfolio[CandidateMonths[i]] = NullDoc
                       => forecast.chain.yields[i] = FInt(0)
            /\ pc = "done" => Len(forecast.chain.yields) = TargetIndex)
    /\ [][(pc = "year-chain" /\ pc' = "year-chain"
              /\ files.portfolio[CandidateMonths[forecast.pos]] = NullDoc)
            => /\ forecast'.chain.prevBalance = forecast.chain.prevBalance
               /\ forecast'.chain.accumulatedNetFlow = forecast.chain.accumulatedNetFlow
               /\ forecast'.chain.yields = Append(forecast.chain.yields, FInt(0))]_vars

\* a chain of three months whose second month has no document but has
\* transfers
C12_Witness ==
    /\ pc = "done"
    /\ TargetIndex = 3
    /\ files.portfolio[CandidateMonths[2]] = NullDoc
    /\ files.transfers[CandidateMonths[2]] # <<>>
    /\ Len(forecast.chain.yields) = 3
    /\ forecast.chain.yields[2] = FInt(0)
    /\ forecast.chain.prevBalance > 0

\* the later months of the year up to the target, all of them and those with a
\* document
LaterMonths == {CandidateMonths[i] : i \in 2..TargetIndex}
LaterMonthsPresent == {id \in LaterMonths : files.portfolio[id] # NullDoc}

\* C13 as stated: the year-to-date profit is the end balance of the target
\* month minus the first month's whole end balance and, for every later
\* month, that month's deposits minus withdraws.
C13_YtdProfitEveryLaterMonth ==
    pc = "done" =>
        result.ytdProfit =
            EndBalanceOf(args.currentMonthId)
                - (EndBalanceOf(CandidateMonths[1])
                   + SumSet([id \in LaterMonths |-> NetFlowOf(id)], LaterMonths))

\* C13, amended: the year-to-date profit is the end balance of the target
\* month minus the first month's whole end balance and, for every later month
\* that has a document, that month's deposits minus withdraws.
C13_YtdProfit ==
    pc = "done" =>
        result.ytdProfit =
            EndBalanceOf(args.currentMonthId)
                - (EndBalanceOf(CandidateMonths[1])
                   + SumSet([id \in LaterMonthsPresent |-> NetFlowOf(id)], LaterMonthsPresent))

\* three months with documents, deposits in the later two and a gain
C13_Witness ==
    /\ pc = "done"
    /\ TargetIndex = 3
    /\ LaterMonthsPresent = LaterMonths
    /\ \A id \in LaterMonths : NetFlowOf(id) > 0
    /\ EndBalanceOf(CandidateMonths[1]) > 0
    /\ result.ytdProfit = EndBalanceOf(args.currentMonthId) - EndBalanceOf(CandidateMonths[1]) - 2

\* the months of the year before the month with number i have no document
\* and that month has one
EarliestDocument(i) ==
    /\ files.portfolio[CandidateMonths[i]].kind = "ok"
    /\ \A j \in 1..(i - 1) : files.portfolio[CandidateMonths[j]] = NullDoc

\* C28: in calculateYearStats the earliest month of the year that has a
\* document is treated by the zero-kilometer rule even when earlier months
\* of the year have no document: its yield is 0, its month profit is 0 and
\* its whole end balance is counted as contributed capital.
C28_EarliestDocumentZeroKilometer ==
    pc \in {"year-chain", "done"} =>
        \A i \in 1..(forecast.pos - 1) :
            EarliestDocument(i) =>
                /\ forecast.chain.yields[i] = FInt(0)
                /\ forecast.pos = i + 1 =>
                       forecast.chain.accumulatedNetFlow = EndBalanceOf(CandidateMonths[i])
                /\ (args.currentMonthId = CandidateMonths[i]) =>
                       /\ forecast.chain.currentMonthYield = FInt(0)
                       /\ forecast.chain.currentMonthProfit = 0

-----------------------------------------------------------------------------
(* Specification SpecAsync: months are selected while earlier loads are still
   in flight.  Every loadMonth call has its own locals; a call waits twice,
   for its four fetches and for the forecast. *)

AsyncMaxCalls == 2
AsyncMaxVal == 2

AsyncDocs == {NullDoc} \cup {OkDoc(<<Category(CatC, InputTitle, InputColor, <<RawItem(NameN, SrcS, v)>>)>>) :
                                v \in 1..AsyncMaxVal}

AsyncTransferLists == {<<>>, <<Deposit(CatC, SrcS, NameN, 1)>>}

BlankPage == [list |-> [view |-> "blank"], performance |-> None, forecast |-> None]

InitAsync ==
    /\ pc = "page"
    /\ portfolioData = NullDoc
    /\ rawData = NullDoc
    /\ prevData = NullDoc
    /\ transfers = Some(<<>>)
    /\ NoOutputs
    /\ NoNumbers
    /\ availableMonths = [i \in DOMAIN CandidateMonths |-> [id |-> CandidateMonths[i]]]
    /\ files \in [portfolio : [MonthIdSet -> AsyncDocs],
                  transfers : [MonthIdSet -> AsyncTransferLists]]
    /\ currentMonthId = NoMonth
    /\ load = None
    /\ ui = BlankPage
    /\ forecast = None
    /\ calls = <<>>
    /\ dataSource = None

\* lines 949-952 and 1235-1253: a month is selected; loadMonth runs up to the
\* joint await of its fetches
SelectMonth(monthId) ==
    /\ Len(calls) < AsyncMaxCalls
    /\ \E i \in 1..Len(availableMonths) : availableMonths[i].id = monthId
    /\ ui' = [ui EXCEPT !.list = [view |-> "loading"]]
    /\ currentMonthId' = monthId
    /\ calls' = Append(calls, [monthId |-> monthId,
                               prevMonthId |-> getPreviousMonthId(monthId),
                               isFirstMonth |-> (getPreviousMonthId(monthId) = NoMonth),
                               at |-> "fetching",
                               currentData |-> None,
                               prevData |-> None,
                               performance |-> None])
    /\ UNCHANGED <<pc, docVars, outVars, numVars, availableMonths, files, load, forecast, dataSource>>

\* lines 1260-1270 and 1323-1326: the fetches of call c are answered and the
\* current document is missing or has no portfolio list
CallFailed(c) ==
    /\ c \in 1..Len(calls)
    /\ calls[c].at = "fetching"
    /\ NoPortfolio(fetchPortfolioData(calls[c].monthId))
    /\ ui' = [ui EXCEPT !.list = [view |-> "error"]]
    /\ calls' = [calls EXCEPT ![c].at = "returned",
                              ![c].currentData = fetchPortfolioData(calls[c].monthId)]
    /\ UNCHANGED <<pc, docVars, outVars, numVars, availableMonths, files, currentMonthId,
                   load, forecast, dataSource>>

\* lines 1256-1307: the fetches of call c are answered; the globals are
\* assigned and the call waits for the forecast
CallJoined(c) ==
    /\ c \in 1..Len(calls)
    /\ calls[c].at = "fetching"
    /\ ~NoPortfolio(fetchPortfolioData(calls[c].monthId))
    /\ \E r \in {LoadResults(calls[c].monthId, calls[c].prevMonthId, calls[c].isFirstMonth)} :
          /\ portfolioData' = r.currentPortfolioData
          /\ transfers' = r.currentTransfersData
          /\ snapshot' = r.currentSnapshot
          /\ previousSnapshot' = r.previousSnapshot
          /\ comparison' = r.currentComparison
          /\ calls' = [calls EXCEPT ![c].at = "forecasting",
                                    ![c].currentData = r.currentData,
                                    ![c].prevData = r.prevData,
                                    ![c].performance = r.performance]
    /\ UNCHANGED <<pc, prevData, rawData, adjustments, performance, numVars, availableMonths,
                   files, currentMonthId, load, ui, forecast, dataSource>>

\* lines 1307-1321: the forecast of call c is there; the call renders its
\* locals and the comparison held by the global
CallRendered(c) ==
    /\ c \in 1..Len(calls)
    /\ calls[c].at = "forecasting"
    /\ ui' = [list |-> [view |-> "portfolio",
                        portfolio |-> calls[c].currentData,
                        comparison |-> comparison],
              performance |-> calls[c].performance,
              forecast |-> calculateYearStats(calls[c].monthId)]
    /\ calls' = [calls EXCEPT ![c].at = "returned"]
    /\ UNCHANGED <<pc, docVars, outVars, numVars, availableMonths, files, currentMonthId,
                   load, forecast, dataSource>>

NextAsync ==
    \/ \E monthId \in MonthIdSet : SelectMonth(monthId)
    \/ \E c \in 1..AsyncMaxCalls : CallFailed(c)
    \/ \E c \in 1..AsyncMaxCalls : CallJoined(c)
    \/ \E c \in 1..AsyncMaxCalls : CallRendered(c)

SpecAsync == InitAsync /\ [][NextAsync]_vars

\* C15: transfer merging never mutates a document object handed over by the
\* data retrieval: after the merges of a month-load the fetched current and
\* previous documents still hold their pre-merge values and carry no
\* isVirtual / originalVal / adjustment fields.
C15_FetchedDocumentsUntouched ==
    \A c \in 1..Len(calls) :
        calls[c].at \in {"forecasting", "returned"} =>
            /\ calls[c].currentData = fetchPortfolioData(calls[c].monthId)
            /\ (calls[c].prevMonthId # NoMonth /\ calls[c].prevData # None)
                   => calls[c].prevData = fetchPortfolioData(calls[c].prevMonthId)

\* the calls have all returned and none of them failed
AllReturned ==
    \A c \in 1..Len(calls) :
        calls[c].at = "returned" /\ ~NoPortfolio(fetchPortfolioData(calls[c].monthId))

\* C20: when a month B is selected while the load of month A is in flight,
\* the completion of A's load is ignored: once both loads have finished, the
\* rendered portfolio, performance and forecast and the globals are those of
\* B, the month held in currentMonthId.
C20_StaleLoadIgnored ==
    (Len(calls) = AsyncMaxCalls /\ AllReturned) =>
        LET r == LoadResults(currentMonthId, getPreviousMonthId(currentMonthId),
                             getPreviousMonthId(currentMonthId) = NoMonth)
        IN /\ portfolioData = r.currentPortfolioData
           /\ snapshot = r.currentSnapshot
           /\ previousSnapshot = r.previousSnapshot
           /\ comparison = r.currentComparison
           /\ ui.list = [view |-> "portfolio", portfolio |-> r.currentData,
                         comparison |-> r.currentComparison]
           /\ ui.performance = r.performance
           /\ ui.forecast = calculateYearStats(currentMonthId)

\* C24: under every interleaving of two overlapping loadMonth calls, the
\* portfolio document and the comparison record handed to renderPortfolio come
\* from the same month-load.
C24_RenderedPairFromOneLoad ==
    ui.list.view = "portfolio" =>
        \E c \in 1..Len(calls) :
            /\ calls[c].at = "returned"
            /\ ui.list.portfolio = calls[c].currentData
            /\ ui.list.comparison
                   = LoadResults(calls[c].monthId, calls[c].prevMonthId,
                                 calls[c].isFirstMonth).currentComparison

-----------------------------------------------------------------------------
(* Specification SpecDegrade: buildSnapshot, getAdjustmentsPerAsset and
   compareSnapshots called on missing, malformed and incomplete inputs *)

DegradeMaxVal == 1

\* what a category of the input holds: no item list, or one entry
DegradeCategories(id) ==
    {ItemlessCategory(id, InputTitle, InputColor)}
    \cup {Category(id, InputTitle, InputColor, <<RawItem(NameN, SrcS, v)>>) : v \in 0..DegradeMaxVal}

DegradeDocs ==
    {NullDoc, MalformedDoc, OkDoc(<<>>)}
    \cup {OkDoc(<<c>>) : c \in DegradeCategories(CatC)}
    \cup {OkDoc(<<c, d>>) : c \in DegradeCategories(CatC), d \in DegradeCategories(CatD)}

DegradeTransferLists == {Undefined, Some(<<>>), Some(<<Deposit(CatC, SrcS, NameN, 1)>>)}

InitDegrade ==
    /\ pc = "input"
    /\ rawData \in DegradeDocs
    /\ portfolioData = rawData
    /\ prevData \in {NullDoc, OkDoc(<<Category(CatC, InputTitle, InputColor, <<RawItem(NameN, SrcS, 1)>>)>>)}
    /\ transfers \in DegradeTransferLists
    /\ NoOutputs
    /\ NoNumbers
    /\ NoLoad

CallBuildSnapshot ==
    /\ pc = "input"
    /\ result' = buildSnapshot_Call(portfolioData)
    /\ snapshot' = IF result'.kind = "returned" THEN result'.value ELSE None
    /\ pc' = "built"
    /\ UNCHANGED <<docVars, previousSnapshot, adjustments, comparison, performance, args, loadVars>>

CallGetAdjustments ==
    /\ pc = "input"
    /\ result' = getAdjustmentsPerAsset_Call(transfers, portfolioData)
    /\ adjustments' = result'.value
    /\ pc' = "adjusted"
    /\ UNCHANGED <<docVars, snapshot, previousSnapshot, comparison, performance, args, loadVars>>

\* compareSnapshots on the snapshot CallBuildSnapshot returned, or on none when
\* it threw, against the snapshot of the previous document or none
CallCompareSnapshots ==
    /\ pc = "built"
    /\ previousSnapshot' = IF NoPortfolio(prevData) THEN None ELSE buildSnapshot(prevData)
    /\ result' = compareSnapshots_Call(snapshot, previousSnapshot',
                                       getAdjustmentsPerAsset(transfers, portfolioData))
    /\ comparison' = IF result'.kind = "returned" THEN result'.value ELSE None
    /\ pc' = "compared"
    /\ UNCHANGED <<docVars, snapshot, adjustments, performance, args, loadVars>>

NextDegrade == CallBuildSnapshot \/ CallGetAdjustments \/ CallCompareSnapshots

SpecDegrade == InitDegrade /\ [][NextDegrade]_vars

\* C18: buildSnapshot, getAdjustmentsPerAsset and compareSnapshots never throw:
\* every call returns, and a document without a category list yields total 0,
\* no categories and an empty asset map.
C18_NeverThrows ==
    /\ result # None => result.kind = "returned"
    /\ (pc = "built" /\ NoPortfolio(rawData)) => result = Returned(EmptySnapshot)

-----------------------------------------------------------------------------
(* Specification SpecFetch: loadMonth over a data source whose requests may be
   answered, not found, refused or rejected, in local and in remote mode *)

FetchMaxVal == 1

FetchMonths == {"2026-01", "2026-02"}
FetchFiles == {FileName(k, mo) : k \in {"portfolio", "transfers"}, mo \in FetchMonths}

FailureStatuses == {"401", "500", "failed"}

FetchResponses(filename) ==
    {ErrorResponse(s) : s \in {"404"} \cup FailureStatuses}
    \cup (IF filename[1] = "portfolio"
          THEN {OkResponse(OkDoc(<<Category(CatC, InputTitle, InputColor,
                                            <<RawItem(NameN, SrcS, v)>>)>>)) : v \in 1..FetchMaxVal}
          ELSE {OkResponse(JsonArray(<<Deposit(CatC, SrcS, NameN, 1)>>))})

DataSources ==
    {[sourceType |-> "local", configured |-> FALSE, responses |-> r] :
        r \in {f \in [FetchFiles -> UNION {FetchResponses(n) : n \in FetchFiles}] :
                  \A n \in FetchFiles : f[n] \in FetchResponses(n)}}
    \cup {[sourceType |-> "remote", configured |-> c, responses |-> r] :
            c \in BOOLEAN,
            r \in {f \in [FetchFiles -> UNION {FetchResponses(n) : n \in FetchFiles}] :
                      \A n \in FetchFiles : f[n] \in FetchResponses(n)}}

NothingFetched ==
    [portfolio |-> [mo \in MonthIdSet |-> NullDoc], transfers |-> [mo \in MonthIdSet |-> <<>>]]

InitFetch ==
    /\ pc = "idle"
    /\ portfolioData = NullDoc
    /\ rawData = NullDoc
    /\ prevData = NullDoc
    /\ transfers = Undefined
    /\ NoOutputs
    /\ NoNumbers
    /\ availableMonths = <<[id |-> "2026-01"], [id |-> "2026-02"]>>
    /\ files = NothingFetched
    /\ currentMonthId = NoMonth
    /\ load = None
    /\ ui = "blank"
    /\ forecast = None
    /\ calls = <<>>
    /\ dataSource \in DataSources

\* lines 1246-1253 and 1323-1326: one of the awaited fetches throws, the catch
\* of loadMonth shows the error
FetchThrown ==
    /\ pc = "fetching"
    /\ \E n \in LoadFetches(load) : FetchOutcome(n).kind = "thrown"
    /\ ui' = "error"
    /\ load' = None
    /\ pc' = "idle"
    /\ UNCHANGED <<docVars, outVars, numVars, availableMonths, files, currentMonthId, forecast, calls, dataSource>>

\* line 1248: every awaited fetch has returned; files holds what they returned
FetchJoined ==
    /\ pc = "fetching"
    /\ \A n \in LoadFetches(load) : FetchOutcome(n).kind = "returned"
    /\ files' = [portfolio |-> [mo \in MonthIdSet |->
                                   IF FileName("portfolio", mo) \in LoadFetches(load)
                                   THEN fetchPortfolioData_Call(mo).value
                                   ELSE files.portfolio[mo]],
                 transfers |-> [mo \in MonthIdSet |->
                                   IF FileName("transfers", mo) \in LoadFetches(load)
                                   THEN fetchTransfersForMonth_Call(mo).value
                                   ELSE files.transfers[mo]]]
    /\ pc' = "joined"
    /\ UNCHANGED <<docVars, outVars, numVars, availableMonths, currentMonthId, load, ui, forecast, calls, dataSource>>

\* lines 1260-1265: the current document is absent
FetchNoDocument ==
    /\ pc = "joined"
    /\ NoPortfolio(fetchPortfolioData(load.monthId))
    /\ ui' = "error"
    /\ load' = None
    /\ pc' = "idle"
    /\ UNCHANGED <<docVars, outVars, numVars, availableMonths, files, currentMonthId, forecast, calls, dataSource>>

\* lines 1256-1303: merge, snapshots, comparison and performance
FetchCompute ==
    /\ pc = "joined"
    /\ ~NoPortfolio(fetchPortfolioData(load.monthId))
    /\ \E r \in {LoadResults(load.monthId, load.prevMonthId, load.isFirstMonth)} :
          /\ rawData' = fetchPortfolioData(load.monthId)
          /\ portfolioData' = r.currentPortfolioData
          /\ transfers' = r.currentTransfersData
          /\ prevData' = r.prevData
          /\ snapshot' = r.currentSnapshot
          /\ previousSnapshot' = r.previousSnapshot
          /\ adjustments' = getAdjustmentsPerAsset(r.currentTransfersData, r.currentPortfolioData)
          /\ comparison' = r.currentComparison
          /\ performance' = r.performance
    /\ pc' = "forecasting"
    /\ UNCHANGED <<numVars, loadVars>>

NextFetch ==
    \/ \E monthId \in FetchMonths : LoadStart(monthId)
    \/ FetchThrown
    \/ FetchJoined
    \/ FetchNoDocument
    \/ FetchCompute
    \/ LoadRender

SpecFetch == InitFetch /\ [][NextFetch]_vars

\* the response the fetch of a file received; no request is made in remote
\* mode without configuration
Failed(filename) ==
    /\ isConfigured
    /\ dataSource.responses[filename].status \in FailureStatuses

\* C17: a retrieval failure (no connection, refused credentials, server error)
\* of any file of the load is never turned into an absent result: the load is
\* aborted, so a load that reached its computations had no failed fetch.
C17_FailureAbortsLoad ==
    (pc \in {"joined", "forecasting"}) => \A n \in LoadFetches(load) : ~Failed(n)

-----------------------------------------------------------------------------
(* Specification SpecJoin: one loadMonth call with its four fetches settling in
   any order, then calculateYearStats with the fetches of the year's months
   settling in any order, then the rendering *)

InitJoin ==
    /\ pc = "page"
    /\ portfolioData = NullDoc
    /\ rawData = NullDoc
    /\ prevData = NullDoc
    /\ transfers = Undefined
    /\ NoOutputs
    /\ NoNumbers
    /\ availableMonths = [i \in DOMAIN CandidateMonths |-> [id |-> CandidateMonths[i]]]
    /\ files \in [portfolio : [MonthIdSet -> AsyncDocs],
                  transfers : [MonthIdSet -> AsyncTransferLists]]
    /\ currentMonthId = NoMonth
    /\ load = None
    /\ ui = "blank"
    /\ forecast = None
    /\ calls = <<>>
    /\ dataSource = None

\* lines 1235-1253: loadMonth until the four promises exist
JoinStart(monthId) ==
    /\ pc = "page"
    /\ ui' = "loading"
    /\ currentMonthId' = monthId
    /\ load' = [monthId |-> monthId,
                prevMonthId |-> getPreviousMonthId(monthId),
                isFirstMonth |-> (getPreviousMonthId(monthId) = NoMonth),
                pending |-> LoadPromises(getPreviousMonthId(monthId))]
    /\ pc' = "fetching"
    /\ UNCHANGED <<docVars, outVars, numVars, availableMonths, files, forecast, calls, dataSource>>

\* one of the fetches of lines 1249-1252 completes
FetchSettled(name) ==
    /\ pc = "fetching"
    /\ name \in load.pending
    /\ load' = [load EXCEPT !.pending = @ \ {name}]
    /\ UNCHANGED <<pc, docVars, outVars, numVars, availableMonths, files, currentMonthId,
                   ui, forecast, calls, dataSource>>

\* lines 1248 and 1260-1265: the await is over and there is no current document
JoinNoDocument ==
    /\ pc = "fetching"
    /\ AllSettled(load.pending)
    /\ NoPortfolio(fetchPortfolioData(load.monthId))
    /\ ui' = "error"
    /\ pc' = "returned"
    /\ UNCHANGED <<docVars, outVars, numVars, availableMonths, files, currentMonthId,
                   load, forecast, calls, dataSource>>

\* lines 1248 and 1256-1307: the await is over; merge, snapshots, comparison and
\* performance are computed and calculateYearStats(monthId) is called
JoinCompute ==
    /\ pc = "fetching"
    /\ AllSettled(load.pending)
    /\ ~NoPortfolio(fetchPortfolioData(load.monthId))
    /\ \E r \in {LoadResults(load.monthId, load.prevMonthId, load.isFirstMonth)} :
          /\ rawData' = fetchPortfolioData(load.monthId)
          /\ portfolioData' = r.currentPortfolioData
          /\ transfers' = r.currentTransfersData
          /\ prevData' = r.prevData
          /\ snapshot' = r.currentSnapshot
          /\ previousSnapshot' = r.previousSnapshot
          /\ adjustments' = getAdjustmentsPerAsset(r.currentTransfersData, r.currentPortfolioData)
          /\ comparison' = r.currentComparison
          /\ performance' = r.performance
    /\ args' = [currentMonthId |-> load.monthId]
    /\ pc' = "idle"
    /\ UNCHANGED <<result, loadVars>>

\* lines 1308-1321: the forecast has returned and the month is rendered
JoinRender ==
    /\ pc = "done"
    /\ ui' = "rendered"
    /\ pc' = "returned"
    /\ UNCHANGED <<docVars, outVars, numVars, availableMonths, files, currentMonthId,
                   load, forecast, calls, dataSource>>

NextJoin ==
    \/ \E monthId \in MonthIdSet : JoinStart(monthId)
    \/ \E name \in FetchNames : FetchSettled(name)
    \/ JoinNoDocument
    \/ JoinCompute
    \/ YearStart
    \/ \E i \in DOMAIN CandidateMonths : MonthFetched(i)
    \/ SequenceReady
    \/ ChainStep
    \/ YearReturn
    \/ JoinRender

SpecJoin == InitJoin /\ [][NextJoin]_vars

\* C19: in loadMonth nothing is computed before the four fetches of the load
\* have all completed, and calculateYearStats starts the chain only when the
\* document and transfers of every month 01..target have been fetched.
C19_NoComputationOnPartialData ==
    /\ (pc \notin {"page", "fetching"} \/ snapshot # None \/ performance # None
        \/ comparison # None \/ portfolioData # NullDoc)
           => load.pending = {}
    /\ (forecast # None /\ (forecast.pos >= 1 \/ forecast.chain # ChainStart))
           => /\ forecast.pending = {}
              /\ DOMAIN forecast.results = DOMAIN forecast.ids
              /\ Len(forecast.sequence) = Len(forecast.ids)

\* the chain of the third month is being built in a load that awaited the
\* fetches of the month and of its previous month
C19_Witness ==
    /\ pc = "year-chain"
    /\ forecast.pos >= 2
    /\ load.prevMonthId # NoMonth
    /\ load.pending = {}
    /\ previousSnapshot # None
    /\ Len(forecast.sequence) = 3

-----------------------------------------------------------------------------
(* Specification SpecTransferFile: fetchTransfersData on one transfer file that
   is a bare list, an object with or without a transfers list, or not there *)

TfMaxTransfers == 2

TfFile == FileName("transfers", "2026-01")

TfTransferKinds ==
    {Deposit(CatC, SrcS, NameN, 1), Withdraw(CatC, SrcS, NameN, 1),
     Move(CatC, SrcS, NameN, CatD, SrcS, NameN, 1)}

TfMetas == {EmptyMap, [date |-> "2026-01-15"]}

TfBodies ==
    {JsonArray(l) : l \in SeqsUpTo(TfTransferKinds, TfMaxTransfers)}
    \cup {TransferFile(meta, JsonArray(l)) :
             meta \in TfMetas, l \in SeqsUpTo(TfTransferKinds, TfMaxTransfers)}
    \cup {MetaOnlyFile(meta) : meta \in TfMetas}

TfResponses ==
    {OkResponse(b) : b \in TfBodies}
    \cup {ErrorResponse(s) : s \in {"404", "401", "500", "failed"}}

InitTransferFile ==
    /\ pc = "input"
    /\ portfolioData = NullDoc
    /\ rawData = NullDoc
    /\ prevData = NullDoc
    /\ transfers = Undefined
    /\ NoOutputs
    /\ NoNumbers
    /\ availableMonths = <<>>
    /\ files = None
    /\ currentMonthId = NoMonth
    /\ load = None
    /\ ui = "blank"
    /\ forecast = None
    /\ calls = <<>>
    /\ dataSource \in {[sourceType |-> t, configured |-> (t = "remote"),
                        responses |-> [n \in {TfFile} |-> r]] :
                          t \in {"local", "remote"}, r \in TfResponses}

FetchTransfersData ==
    /\ pc = "input"
    /\ args' = [filename |-> TfFile]
    /\ result' = fetchTransfersData_Call(TfFile)
    /\ pc' = "done"
    /\ UNCHANGED <<docVars, outVars, loadVars>>

NextTransferFile == FetchTransfersData

SpecTransferFile == InitTransferFile /\ [][NextTransferFile]_vars

TfResponse == dataSource.responses[TfFile]

\* C21: fetchTransfersData returns a file that is a bare list L as
\* {meta: {}, transfers: L}, a file that has the transfers wrapper unchanged,
\* and null when the file is not found.
C21_TransferFileNormalised ==
    pc = "done" =>
        /\ (TfResponse.status = "200" /\ TfResponse.body.kind = "array")
              => result = Returned([kind |-> "object", meta |-> EmptyMap,
                                    transfers |-> TfResponse.body])
        /\ (TfResponse.status = "200" /\ TfResponse.body.kind = "object"
            /\ "transfers" \in DOMAIN TfResponse.body)
              => result = Returned(TfResponse.body)
        /\ TfResponse.status = "404" => result = Returned(NullDoc)

\* a file with a wrapper, a date and two transfers has been fetched
C21_Witness ==
    /\ pc = "done"
    /\ TfResponse.status = "200"
    /\ TfResponse.body.kind = "object"
    /\ "transfers" \in DOMAIN TfResponse.body
    /\ TfResponse.body.meta # EmptyMap
    /\ Len(TfResponse.body.transfers.elements) = 2
    /\ result = Returned(TfResponse.body)

-----------------------------------------------------------------------------
(* Specification SpecMonth: loadMonth on two months whose documents use
   category identifiers in either case and whose transfers include moves *)

MonthMaxVal == 1
MonthMaxTransfers == 2

CatUpperC == <<"C">>

MonthShapes ==
    { << <<CatUpperC, <<NameN>>>> >>,
      << <<CatC, <<NameN>>>>, <<CatD, <<NameN>>>> >> }

MonthDocs == {NullDoc} \cup DocsOfShapes(MonthShapes, MonthMaxVal)

\* the documents of the earlier month: every entry holds the largest value
MonthPreviousDocs ==
    {NullDoc} \cup {d \in DocsOfShapes(MonthShapes, MonthMaxVal) :
                       \A i \in 1..Len(d.portfolio) :
                           \A j \in 1..Len(d.portfolio[i].items) :
                               d.portfolio[i].items[j].val = MonthMaxVal}

MonthTransferKinds ==
    {Deposit(CatC, SrcS, NameN, 1), Withdraw(CatC, SrcS, NameN, 1),
     Deposit(CatUpperC, SrcS, NameN, 1), Move(CatC, SrcS, NameN, CatD, SrcS, NameN, 1)}

MonthIds == {"2026-01", "2026-02"}

InitMonth ==
    /\ pc = "idle"
    /\ portfolioData = NullDoc
    /\ rawData = NullDoc
    /\ prevData = NullDoc
    /\ transfers = Undefined
    /\ NoOutputs
    /\ NoNumbers
    /\ availableMonths = <<[id |-> "2026-01"], [id |-> "2026-02"]>>
    /\ files \in [portfolio : {[mo \in MonthIds |-> IF mo = "2026-02" THEN d ELSE e] :
                                  d \in MonthDocs, e \in MonthPreviousDocs},
                  transfers : {[mo \in MonthIds |-> IF mo = "2026-02" THEN l ELSE p] :
                                  l \in SeqsUpTo(MonthTransferKinds, MonthMaxTransfers),
                                  p \in {<<>>, <<Deposit(CatC, SrcS, NameN, 1)>>}}]
    /\ currentMonthId = NoMonth
    /\ load = None
    /\ ui = "blank"
    /\ forecast = None
    /\ calls = <<>>
    /\ dataSource = None

NextMonth ==
    \/ \E monthId \in MonthIds : LoadStart(monthId)
    \/ LoadFailed
    \/ LoadCompute
    \/ LoadRender

SpecMonth == InitMonth /\ [][NextMonth]_vars

\* the load has compared the month with its previous month
Compared == pc = "forecasting" /\ comparison # None

RECURSIVE CategoryNet(_, _)
\* the net amount the transfers of a list bring into one category: deposits
\* into it and moves to it, less withdraws and moves from it
CategoryNet(list, catId) ==
    IF list = <<>> THEN 0
    ELSE LET t == Head(list)
             here == IF t.type = "deposit" THEN (IF t.category = catId THEN t.amount ELSE 0)
                     ELSE IF t.type = "withdraw"
                     THEN (IF t.category = catId THEN 0 - t.amount ELSE 0)
                     ELSE (IF t.to_category = catId THEN t.amount ELSE 0)
                          - (IF t.from_category = catId THEN t.amount ELSE 0)
         IN here + CategoryNet(Tail(list), catId)

PreviousCategoryTotal(catId) ==
    IF catId \in DOMAIN previousSnapshot.categories
    THEN previousSnapshot.categories[catId].total ELSE 0

\* C23: no category identifier of the documents being a prefix of another, the
\* adjustment of a category's delta is the sum of the net adjustments of the
\* transfers that target that category and no other: category adjustedStart =
\* previous category total + that sum, for every category identifier.
C23_CategoryAdjustmentByCategory ==
    Compared =>
        \A catId \in DOMAIN comparison.categories :
            comparison.categories[catId].adjustedStart
                = PreviousCategoryTotal(catId) + CategoryNet(TransferList, catId)

\* C25: in a load with a previous month that has a document the portfolio-level
\* comparison agrees with the performance: delta = profit and adjustedStart =
\* startBalance + netFlow.
C25_ComparisonAgreesWithPerformance ==
    Compared =>
        /\ comparison.portfolio.delta = performance.profit
        /\ comparison.portfolio.adjustedStart = performance.startBalance + performance.netFlow

\* a month with a deposit and a move, a gain on top, and a previous month that
\* has a deposit of its own
C25_Witness ==
    /\ Compared
    /\ HasMove(TransferList)
    /\ SumAmounts(TransferList, "deposit") = 1
    /\ files.transfers[load.prevMonthId] # <<>>
    /\ performance.startBalance = 3
    /\ performance.profit # 0
    /\ comparison.portfolio.adjustedStart = 4

\* C26: the comparison is additive across levels: the per-asset deltas and the
\* per-category deltas both add up to the portfolio-level delta.
C26_DeltasAdditive ==
    Compared =>
        /\ SumSet([k \in DOMAIN comparison.assets |-> comparison.assets[k].delta],
                  DOMAIN comparison.assets) = comparison.portfolio.delta
        /\ SumSet([c \in DOMAIN comparison.categories |-> comparison.categories[c].delta],
                  DOMAIN comparison.categories) = comparison.portfolio.delta

-----------------------------------------------------------------------------
(* Specification SpecForecast: the month selector lists the months whose file
   exists, one of them is loaded, and calculateYearStats of that month runs
   inside the load *)

\* lines 190-199: the candidate months whose file exists, in candidate order
getAvailableMonthsLocal(portfolioFiles) ==
    SelectSeq([i \in DOMAIN CandidateMonths |-> [id |-> CandidateMonths[i]]],
              LAMBDA month : portfolioFiles[month.id] # NullDoc)

\* lines 924-927: the page has asked for the list of months
InitForecast ==
    /\ pc = "page"
    /\ portfolioData = NullDoc
    /\ rawData = NullDoc
    /\ prevData = NullDoc
    /\ transfers = Undefined
    /\ NoOutputs
    /\ NoNumbers
    /\ files \in [portfolio : [MonthIdSet -> AsyncDocs],
                  transfers : [MonthIdSet -> AsyncTransferLists]]
    /\ availableMonths = getAvailableMonthsLocal(files.portfolio)
    /\ currentMonthId = NoMonth
    /\ load = None
    /\ ui = "blank"
    /\ forecast = None
    /\ calls = <<>>
    /\ dataSource = None

\* lines 931-952: the selector offers the available months and loads the one
\* that is chosen
NextForecast ==
    \/ \E monthId \in {availableMonths[i].id : i \in 1..Len(availableMonths)} :
           JoinStart(monthId)
    \/ \E name \in FetchNames : FetchSettled(name)
    \/ JoinCompute
    \/ YearStart
    \/ \E i \in DOMAIN CandidateMonths : MonthFetched(i)
    \/ SequenceReady
    \/ ChainStep
    \/ YearReturn
    \/ JoinRender

SpecForecast == InitForecast /\ [][NextForecast]_vars

\* C29: for every selected month the forecast's monthYield times 100 equals
\* performance.yieldPercent and its monthProfit equals performance.profit,
\* whichever months of the year have a file.
C29_ForecastAgreesWithPerformance ==
    (pc \in {"done", "returned"} /\ result # None) =>
        /\ FMul(result.monthYield, FInt(100)) = performance.yieldPercent
        /\ result.monthProfit = performance.profit

=============================================================================
